---- MODULE Spec2Model ----
(***************************************************************************)
(* A model of nudgebee/logparser: the aggregator (Parser) that counts log  *)
(* messages per pattern and per detected secret, and the sensitive-data    *)
(* detector it calls.                                                      *)
(*                                                                         *)
(* A message content is modelled as the sequence of its whitespace-        *)
(* separated words.  A regular expression is modelled by the set of words  *)
(* of the universe that it matches; a keyword is a substring of a line iff *)
(* it is one of the line's words.                                          *)
(***************************************************************************)
EXTENDS Integers, Sequences, FiniteSets, TLC

(***************************************************************************)
(* Bounds of the model.                                                    *)
(***************************************************************************)
\* number of messages worker B receives in one behaviour
MaxMsgs == 3
\* the same, where inc is followed statement by statement
MaxLockMsgs == 3
\* the per-level caps a parser may be constructed with: 1..MaxCap
MaxCap == 2
\* the longest catalog the detector is applied to
MaxCatalog == 2
\* number of entries the producer sends on the source channel
MaxEntries == 2
\* number of calls of Stop
MaxStops == 2
\* number of entries the producer sends where termination is checked
MaxFairEntries == 1
\* most tokens of a content whose pattern is built on its own
MaxTokens == 2
\* most logs in one call of ExtractPatterns
MaxLogs == 4
\* the largest maxPatterns of a call of ExtractPatterns
MaxPatterns == 2

(***************************************************************************)
(* Levels.                                                                 *)
(***************************************************************************)
Levels == {"Unknown", "Debug", "Info", "Warning", "Error", "Critical"}

\* parser.go:127  msg.Level == LevelUnknown || LevelDebug || LevelInfo
IsLowSignal(level) == level \in {"Unknown", "Debug", "Info"}

(***************************************************************************)
(* Words and contents.                                                     *)
(***************************************************************************)
\* words that contain a digit: the tokenizer classifies them as variable
VariableWords == {"v1", "v2", "AKIA1", "AKIA2"}
StableWords == {"err", "db", "key"}

\* the contents a message may carry
Contents ==
  { <<"err", "v1">>, <<"err", "v2">>, <<"v1", "err">>, <<"db", "err">>,
    <<"key", "AKIA1">>, <<"key", "AKIA2">>, <<"db", "key", "AKIA1">>,
    <<"db", "AKIA1">> }

\* the levels of the messages: two low-signal and two high-signal ones
InputLevels == {"Unknown", "Info", "Warning", "Error"}

\* the messages the multiline collector may emit
Messages == [level : InputLevels, content : Contents]

(***************************************************************************)
(* Tokenizer and Pattern.                                                  *)
(***************************************************************************)
IsVariable(word) == word \in VariableWords

\* the nil *Pattern of a reserved entry (&patternStat{})
NilPattern == [nil |-> TRUE, tokens |-> <<>>]

\* the split on runs of whitespace: the newline that joins the lines of a
\* message is no word
IsWord(word) == word # "\n"
Words(content) == SelectSeq(content, IsWord)

NewPattern(content) ==
  [nil |-> FALSE,
   tokens |-> [i \in 1..Len(Words(content)) |->
                 [text |-> Words(content)[i],
                  stable |-> ~IsVariable(Words(content)[i])]]]

RECURSIVE StableTexts(_)
StableTexts(tokens) ==
  IF tokens = <<>> THEN <<>>
  ELSE IF Head(tokens).stable
       THEN <<Head(tokens).text>> \o StableTexts(Tail(tokens))
       ELSE StableTexts(Tail(tokens))

\* the decimal rendering of a token count followed by ":"
LenStr(n) ==
  <<"0:", "1:", "2:", "3:", "4:", "5:", "6:", "7:", "8:", "9:", "10:", "11:",
    "12:">>[n + 1]

\* a digest over the stable token texts alone
HashNoCount(p) == StableTexts(p.tokens)

\* The digest input: len(tokens) || ":" || join(stable token texts).  The
\* digest itself is taken to be collision-free, so the hash is its input.
Hash(p) == <<LenStr(Len(p.tokens))>> \o StableTexts(p.tokens)

\* a comparison that tolerates one position that differs
WeakEqualOneMismatch(a, b) ==
  /\ ~a.nil /\ ~b.nil
  /\ Len(a.tokens) = Len(b.tokens)
  /\ Cardinality({i \in 1..Len(a.tokens) : a.tokens[i] # b.tokens[i]}) <= 1

WeakEqual(a, b) ==
  /\ ~a.nil /\ ~b.nil
  /\ Len(a.tokens) = Len(b.tokens)
  /\ \A i \in 1..Len(a.tokens) :
       /\ a.tokens[i].stable = b.tokens[i].stable
       /\ (a.tokens[i].stable => a.tokens[i].text = b.tokens[i].text)

\* the reserved hashes
EmptyHash == <<>>
unclassifiedPatternHash == <<"__unclassified__">>
\* the samples of the reserved entries
EmptySample == <<>>
unclassifiedPatternLabel == <<"<unclassified>">>

(***************************************************************************)
(* The sensitive-pattern catalog and the detector.                         *)
(***************************************************************************)
\* the words of the universe each regular expression matches
Lang(regex) ==
  CASE regex = "AKIA[0-9A-Z]{16}" -> {"AKIA1", "AKIA2"}
    [] regex = "[a-z]+\\d" -> {"v1", "v2"}
    [] regex = "db" -> {"db"}
    [] OTHER -> {}

\* regexp.MatchString: some word of the line matches
MatchString(regex, line) == \E i \in 1..Len(line) : line[i] \in Lang(regex)

\* regexp.FindString: the leftmost match
FindString(regex, line) ==
  LET hits == {i \in 1..Len(line) : line[i] \in Lang(regex)}
  IN  line[CHOOSE i \in hits : \A j \in hits : i <= j]

\* mutant: the keywords are not consulted
KeywordGateOpen(entry, line) == TRUE

\* strings.Contains(line, keyword) for some keyword of the entry
KeywordGate(entry, line) ==
  \/ entry.keywords = <<>>
  \/ \E k \in 1..Len(entry.keywords) :
       \E i \in 1..Len(line) : line[i] = entry.keywords[k]

\* whether one catalog entry matches the line
EntryMatches(entry, line) ==
  /\ KeywordGate(entry, line)
  /\ MatchString(entry.regex, line)

\* mutant: the key carries the matched text alone
NewMatchNoHash(entry, line, hash) ==
  [sensitivePatternKey |-> [pattern |-> FindString(entry.regex, line),
                            hash |-> EmptyHash],
   regex |-> entry.regex, name |-> entry.name, hash |-> hash]

\* key := sensitivePatternKey{pattern: sensitivePart, hash: hash} and the match
NewMatch(entry, line, hash) ==
  [sensitivePatternKey |-> [pattern |-> FindString(entry.regex, line),
                            hash |-> hash],
   regex |-> entry.regex, name |-> entry.name, hash |-> hash]

\* DetectSensitiveData: the match of the first entry that matches, then break
DetectSensitiveData(line, hash, precompiledPatterns) ==
  LET hits == {i \in 1..Len(precompiledPatterns) :
                 EntryMatches(precompiledPatterns[i], line)}
  IN  IF hits = {} THEN <<>>
      ELSE <<NewMatch(precompiledPatterns[CHOOSE i \in hits :
                                            \A j \in hits : i <= j],
                      line, hash)>>

RECURSIVE DetectAllFrom(_, _, _)
DetectAllFrom(line, hash, patterns) ==
  IF patterns = <<>> THEN <<>>
  ELSE IF MatchString(Head(patterns).regex, line)
       THEN <<[pattern |-> FindString(Head(patterns).regex, line),
               hash |-> hash]>>
            \o DetectAllFrom(line, hash, Tail(patterns))
       ELSE DetectAllFrom(line, hash, Tail(patterns))

\* DetectSensitiveData of the second variant of the package: no break
DetectSensitiveDataV2(line, hash, patterns) ==
  DetectAllFrom(line, hash, patterns)

\* the catalog entries a parser may be constructed with
CatalogEntries ==
  { [name |-> "AWS_Access_Key", regex |-> "AKIA[0-9A-Z]{16}",
     keywords |-> <<"key">>],
    [name |-> "Ident", regex |-> "[a-z]+\\d", keywords |-> <<>>],
    [name |-> "Db", regex |-> "db", keywords |-> <<"err", "key">>] }

\* the catalog the aggregator is constructed with
DefaultCatalog ==
  << [name |-> "AWS_Access_Key", regex |-> "AKIA[0-9A-Z]{16}",
      keywords |-> <<"key">>],
     [name |-> "Db", regex |-> "db", keywords |-> <<"key">>] >>

(***************************************************************************)
(* The aggregator.                                                         *)
(***************************************************************************)
VARIABLES
  patterns,               \* Parser.patterns: patternKey -> patternStat
  patternsPerLevel,       \* Parser.patternsPerLevel: Level -> int
  patternsPerLevelLimit,  \* Parser.patternsPerLevelLimit
  sensitivePatterns,      \* Parser.sensitivePatterns
  sensitivePatternsDefinations,
  disableSensitivePatternDetection,
  pc,                     \* worker B: "recv" (at the select) or "inc"
  msg,                    \* worker B: the message received
  received                \* number of messages received from the collector

\* the detector applied to one line and one catalog
VARIABLES
  dLine, dCatalog,        \* the arguments
  dMatches,               \* what DetectSensitiveData returned
  dMatchesV2,             \* what the second variant returned
  dDone                   \* which of the two have been applied

\* the lock, worker B inside inc, and a caller of the two getters
VARIABLES
  lockW,                  \* p.lock is held by a writer
  lockR,                  \* number of readers holding p.lock
  target,                 \* inc: the key of stat
  sTarget,                \* processSensitivePattern: the key of stat
  rpc,                    \* the caller: "idle", inside a getter, or leaving it
  snapshot,               \* what GetCounters last returned
  sSnapshot               \* what GetSensitiveCounters last returned

\* NewParser as a call: its arguments and what it returns
VARIABLES
  ctorArgs,               \* disableSensitiveDataDetection, patternsCompiled,
                          \* and whether LoadPatterns fails
  ctorDone,               \* NewParser has returned
  ctorErr                 \* NewParser returned an error to its caller

\* the tokenizer applied to three contents
VARIABLES
  pIn,                    \* the contents
  pOut                    \* their patterns, hashes and weakEqual comparisons

\* the source channel, worker A, the multiline collector and the observer
VARIABLES
  input,                  \* the entries the single producer sends on ch
  next,                   \* index of the next entry the producer sends
  chClosed,               \* the producer has closed ch
  pcA,                    \* worker A: "select", "got", "exit" or "crashed"
  entry,                  \* worker A: the entry received
  decoder,                \* p.decoder != nil
  onMsgCb,                \* p.onMsgCb: "nil", "ok" or "panics"
  acc,                    \* the collector: Idle or Accumulating(header, parts,
                          \* deadline), and the number of lines it dropped
  queue,                  \* p.multilineCollector.Messages
  collectorDone,          \* the collector has terminated
  stopCalls,              \* number of calls of Stop
  atStop,                 \* history: the collector when Stop was first called
  forwarded,              \* the entries passed to multilineCollector.Add
  emitted,                \* the messages the collector has emitted
  observed                \* the calls of the observer, in order

\* ExtractPatterns as a call
VARIABLES
  logs,                   \* the argument logs
  maxPatterns,            \* the argument maxPatterns
  li,                     \* the loop over logs: index of the next log
  clusters,               \* drain: its clusters, by ClusterId
  clusterExamples,        \* ClusterId -> first log of the cluster
  logPatterns,            \* what ExtractPatterns returned
  epc                     \* "idle", "loop" (in the loop) or "done" (returned)

aggVars == <<patterns, patternsPerLevel, patternsPerLevelLimit,
             sensitivePatterns, sensitivePatternsDefinations,
             disableSensitivePatternDetection, pc, msg, received>>
detVars == <<dLine, dCatalog, dMatches, dMatchesV2, dDone>>
lockVars == <<lockW, lockR, target, sTarget, rpc, snapshot, sSnapshot>>
ctorVars == <<ctorArgs, ctorDone, ctorErr>>
patVars == <<pIn, pOut>>
workVars == <<input, next, chClosed, pcA, entry, decoder, onMsgCb, acc, queue,
              collectorDone, stopCalls, atStop, forwarded, emitted,
              observed>>
extractVars == <<logs, maxPatterns, li, clusters, clusterExamples,
                 logPatterns, epc>>
extVars == <<ctorVars, patVars, workVars, extractVars>>
vars == <<aggVars, detVars, lockVars, extVars>>

NoMsg == [level |-> "Unknown", content |-> <<>>]
NoKey == [level |-> "Unknown", hash |-> <<>>]
NoSKey == [pattern |-> "", hash |-> <<>>]
NoArgs == [disable |-> FALSE, patternsCompiled |-> <<>>, loadFails |-> FALSE]
NoEntry == [ts |-> 0, level |-> "Unknown", content |-> <<>>]
\* the collector in state Idle
Idle ==
  [state |-> "Idle", header |-> NoEntry, parts |-> <<>>, deadline |-> 0,
   dropped |-> 0]

\* NewParser: the catalog the parser keeps
NewParserDefinations(disableSensitiveDataDetection) ==
  IF disableSensitiveDataDetection THEN <<>> ELSE DefaultCatalog

\* NewParser: empty maps; the cap and the flag are constructor arguments
Init ==
  /\ patterns = <<>>
  /\ patternsPerLevel = [l \in Levels |-> 0]
  /\ patternsPerLevelLimit \in 1..MaxCap
  /\ sensitivePatterns = <<>>
  /\ disableSensitivePatternDetection \in BOOLEAN
  /\ sensitivePatternsDefinations =
       NewParserDefinations(disableSensitivePatternDetection)
  /\ pc = "recv"
  /\ msg = NoMsg
  /\ received = 0
  /\ dLine = <<>>
  /\ dCatalog = <<>>
  /\ dMatches = <<>>
  /\ dMatchesV2 = <<>>
  /\ dDone = {}
  /\ lockW = FALSE
  /\ lockR = 0
  /\ target = NoKey
  /\ sTarget = NoSKey
  /\ rpc = "idle"
  /\ snapshot = {}
  /\ sSnapshot = {}
  /\ ctorArgs = NoArgs
  /\ ctorDone = TRUE
  /\ ctorErr = FALSE
  /\ pIn = {}
  /\ pOut = <<>>
  /\ logs = <<>>
  /\ maxPatterns = 0
  /\ li = 1
  /\ clusters = <<>>
  /\ clusterExamples = <<>>
  /\ logPatterns = <<>>
  /\ epc = "idle"
  /\ input = <<>>
  /\ chClosed = FALSE
  /\ next = 1
  /\ pcA = "select"
  /\ entry = NoEntry
  /\ decoder = FALSE
  /\ onMsgCb = "nil"
  /\ acc = Idle
  /\ queue = <<>>
  /\ collectorDone = FALSE
  /\ stopCalls = 0
  /\ atStop = Idle
  /\ forwarded = <<>>
  /\ emitted = <<>>
  /\ observed = <<>>

\* patternKey{level, hash}
PatternKey(level, hash) == [level |-> level, hash |-> hash]

\* map[key] = stat
Put(map, key, stat) ==
  [k \in DOMAIN map \cup {key} |-> IF k = key THEN stat ELSE map[k]]

\* mutant: the increment is by two
BumpTwice(map, key) == [map EXCEPT ![key].messages = @ + 2]

\* stat.messages++
Bump(map, key) == [map EXCEPT ![key].messages = @ + 1]

\* &patternStat{}
ReservedStat ==
  [pattern |-> NilPattern, sample |-> EmptySample, messages |-> 0]

\* mutant: the low-signal branch keys the entry by the hash of the content
FindLowByHash(pats, m) ==
  LET key == PatternKey(m.level, Hash(NewPattern(m.content)))
  IN  [patterns |-> IF key \in DOMAIN pats THEN pats
                    ELSE Put(pats, key, ReservedStat),
       target |-> key, counted |-> FALSE]

\* inc, low-signal branch up to the increment: the reserved entry (level, "")
FindLow(pats, m) ==
  LET key == PatternKey(m.level, EmptyHash)
  IN  [patterns |-> IF key \in DOMAIN pats THEN pats
                    ELSE Put(pats, key, ReservedStat),
       target |-> key, counted |-> FALSE]

\* mutant: the range loop does not compare the level
WeakCandidatesAnyLevel(pats, m, pattern) ==
  {k \in DOMAIN pats : WeakEqual(pats[k].pattern, pattern)}

\* the entries the range loop of inc may stop at
WeakCandidates(pats, m, pattern) ==
  {k \in DOMAIN pats :
     k.level = m.level /\ WeakEqual(pats[k].pattern, pattern)}

\* mutant: the comparison is off by one
CapReachedOffByOne(perLevel, limit, level) == perLevel[level] > limit

\* whether the level already holds as many distinct patterns as the cap allows
CapReached(perLevel, limit, level) == perLevel[level] >= limit

\* the overflow entry of a level
FallbackKey(level) == PatternKey(level, unclassifiedPatternHash)

\* inc, cap reached: the overflow entry, created on first use
FindOverflow(pats, m) ==
  LET key == FallbackKey(m.level)
  IN  [patterns |-> IF key \in DOMAIN pats THEN pats
                    ELSE Put(pats, key,
                             [pattern |-> NilPattern,
                              sample |-> unclassifiedPatternLabel,
                              messages |-> 0]),
       target |-> key, counted |-> FALSE]

\* mutant: the new stat starts at one message and is then incremented
InsertNewCounted(pats, m, key, pattern) ==
  [patterns |-> Put(pats, key, [pattern |-> pattern, sample |-> m.content,
                                messages |-> 1]),
   target |-> key, counted |-> TRUE]

\* stat = &patternStat{pattern: pattern, sample: msg.Content}; p.patterns[key] = stat
InsertNew(pats, m, key, pattern) ==
  [patterns |-> Put(pats, key, [pattern |-> pattern, sample |-> m.content,
                                messages |-> 0]),
   target |-> key, counted |-> TRUE]

\* mutant: the key is built without the level
NewKeyNoLevel(m, pattern) == PatternKey("Unknown", Hash(pattern))

\* key := patternKey{level: msg.Level, hash: pattern.Hash()}
NewKey(m, pattern) == PatternKey(m.level, Hash(pattern))

\* mutant: the cap is tested before the lookup
FindHighCapFirst(pats, perLevel, limit, m) ==
  LET pattern == NewPattern(m.content)
      key == NewKey(m, pattern)
      cands == WeakCandidates(pats, m, pattern)
  IN  IF CapReached(perLevel, limit, m.level)
      THEN {FindOverflow(pats, m)}
      ELSE IF key \in DOMAIN pats
      THEN {[patterns |-> pats, target |-> key, counted |-> FALSE]}
      ELSE IF cands # {}
      THEN {[patterns |-> pats, target |-> k, counted |-> FALSE] : k \in cands}
      ELSE {InsertNew(pats, m, key, pattern)}

\* mutant: a message that finds its key stores its content as the sample
FindHighOverwrite(pats, perLevel, limit, m) ==
  LET pattern == NewPattern(m.content)
      key == NewKey(m, pattern)
      cands == WeakCandidates(pats, m, pattern)
  IN  IF key \in DOMAIN pats
      THEN {[patterns |-> [pats EXCEPT ![key].sample = m.content],
             target |-> key, counted |-> FALSE]}
      ELSE IF cands # {}
      THEN {[patterns |-> pats, target |-> k, counted |-> FALSE] : k \in cands}
      ELSE IF CapReached(perLevel, limit, m.level)
      THEN {FindOverflow(pats, m)}
      ELSE {InsertNew(pats, m, key, pattern)}

\* mutant: an entry with the hash of the message is joined at any level
FindHighJoinAnyLevel(pats, perLevel, limit, m) ==
  LET pattern == NewPattern(m.content)
      key == NewKey(m, pattern)
      same == {k \in DOMAIN pats : k.hash = key.hash}
      cands == WeakCandidates(pats, m, pattern)
  IN  IF same # {}
      THEN {[patterns |-> pats, target |-> k, counted |-> FALSE] : k \in same}
      ELSE IF cands # {}
      THEN {[patterns |-> pats, target |-> k, counted |-> FALSE] : k \in cands}
      ELSE IF CapReached(perLevel, limit, m.level)
      THEN {FindOverflow(pats, m)}
      ELSE {InsertNew(pats, m, key, pattern)}

\* inc, high-signal branch up to the increment: the outcomes of the lookup,
\* one per entry the range loop may stop at
FindHigh(pats, perLevel, limit, m) ==
  LET pattern == NewPattern(m.content)
      key == NewKey(m, pattern)
      cands == WeakCandidates(pats, m, pattern)
  IN  IF key \in DOMAIN pats
      THEN {[patterns |-> pats, target |-> key, counted |-> FALSE]}
      ELSE IF cands # {}
      THEN {[patterns |-> pats, target |-> k, counted |-> FALSE] : k \in cands}
      ELSE IF CapReached(perLevel, limit, m.level)
      THEN {FindOverflow(pats, m)}
      ELSE {InsertNew(pats, m, key, pattern)}

\* the lookup of inc for a message of either kind
Find(pats, perLevel, limit, m) ==
  IF IsLowSignal(m.level) THEN {FindLow(pats, m)}
  ELSE FindHigh(pats, perLevel, limit, m)

\* p.patternsPerLevel[msg.Level]++ when a pattern was inserted
Counted(perLevel, m, found) ==
  IF found.counted THEN [perLevel EXCEPT ![m.level] = @ + 1] ELSE perLevel

\* the entries the range loop of processSensitivePattern may stop at
SensitiveCandidates(sens, sKey, pattern) ==
  {k \in DOMAIN sens :
     k.pattern = sKey.pattern /\ WeakEqual(sens[k].pattern, pattern)}

\* the body of the loop over the matches up to the increment, for one match
FindSensitive(sens, m, pattern, match) ==
  LET sKey == match.sensitivePatternKey
      cands == SensitiveCandidates(sens, sKey, pattern)
  IN  IF sKey \in DOMAIN sens
      THEN {[sens |-> sens, target |-> sKey]}
      ELSE IF cands # {}
      THEN {[sens |-> sens, target |-> k] : k \in cands}
      ELSE {[sens |-> Put(sens, sKey,
                          [pattern |-> pattern, sample |-> m.content,
                           messages |-> 0, sensitiveKey |-> sKey.pattern,
                           regex |-> match.regex, name |-> match.name,
                           hash |-> sKey.hash]),
             target |-> sKey]}

\* mutant: the flag is not consulted and the package catalog is used
SensitiveMatchesAlways(disabled, definations, m, pattern) ==
  DetectSensitiveData(m.content, Hash(pattern), DefaultCatalog)

\* the matches processSensitivePattern counts: none when detection is disabled
SensitiveMatches(disabled, definations, m, pattern) ==
  IF disabled THEN <<>>
  ELSE DetectSensitiveData(m.content, Hash(pattern), definations)

\* processSensitivePattern: the maps it may leave
processSensitivePattern(sens, disabled, definations, m, pattern) ==
  LET matchs == SensitiveMatches(disabled, definations, m, pattern)
  IN  IF matchs = <<>> THEN {sens}
      ELSE {Bump(f.sens, f.target) :
              f \in FindSensitive(sens, m, pattern, matchs[1])}

\* worker B: msg := <-p.multilineCollector.Messages
Recv ==
  /\ pc = "recv"
  /\ received < MaxMsgs
  /\ \E m \in Messages : msg' = m
  /\ received' = received + 1
  /\ pc' = "inc"
  /\ UNCHANGED <<patterns, patternsPerLevel, patternsPerLevelLimit,
                 sensitivePatterns, sensitivePatternsDefinations,
                 disableSensitivePatternDetection, detVars, extVars, lockVars>>

\* worker B: p.inc(msg), the whole call under the write lock
Inc ==
  /\ pc = "inc"
  /\ \E found \in Find(patterns, patternsPerLevel, patternsPerLevelLimit, msg) :
       /\ patterns' = Bump(found.patterns, found.target)
       /\ patternsPerLevel' = Counted(patternsPerLevel, msg, found)
  /\ sensitivePatterns' \in
       processSensitivePattern(sensitivePatterns,
                               disableSensitivePatternDetection,
                               sensitivePatternsDefinations,
                               msg, NewPattern(msg.content))
  /\ pc' = "recv"
  /\ msg' = NoMsg
  /\ UNCHANGED <<patternsPerLevelLimit, sensitivePatternsDefinations,
                 disableSensitivePatternDetection, received, detVars, extVars,
                 lockVars>>

Next == Recv \/ Inc

Spec == Init /\ [][Next]_vars

\* Parser.GetCounters: one LogCounter per entry
GetCounters ==
  {[Level |-> k.level, Hash |-> k.hash, Sample |-> patterns[k].sample,
    Messages |-> patterns[k].messages] : k \in DOMAIN patterns}

\* Parser.GetSensitiveCounters: one SensitiveLogCounter per entry
GetSensitiveCounters ==
  {[Pattern |-> k.pattern, Messages |-> sensitivePatterns[k].messages,
    Sample |-> sensitivePatterns[k].sample,
    Regex |-> sensitivePatterns[k].regex,
    Name |-> sensitivePatterns[k].name,
    Hash |-> sensitivePatterns[k].hash] : k \in DOMAIN sensitivePatterns}

(***************************************************************************)
(* The detector on its own: one line, one catalog.                         *)
(***************************************************************************)
RECURSIVE SeqsUpTo(_, _)
SeqsUpTo(S, n) ==
  IF n = 0 THEN {<<>>}
  ELSE LET shorter == SeqsUpTo(S, n - 1)
       IN  shorter \cup {Append(s, x) : s \in shorter, x \in S}

Catalogs == SeqsUpTo(CatalogEntries, MaxCatalog)

\* one line and one catalog; the aggregator is left as constructed
DetectInit ==
  /\ dLine \in Contents
  /\ dCatalog \in Catalogs
  /\ dMatches = <<>>
  /\ dMatchesV2 = <<>>
  /\ dDone = {}
  /\ patterns = <<>>
  /\ patternsPerLevel = [l \in Levels |-> 0]
  /\ patternsPerLevelLimit = 1
  /\ sensitivePatterns = <<>>
  /\ disableSensitivePatternDetection = FALSE
  /\ sensitivePatternsDefinations = dCatalog
  /\ pc = "recv"
  /\ msg = NoMsg
  /\ received = 0
  /\ lockW = FALSE
  /\ lockR = 0
  /\ target = NoKey
  /\ sTarget = NoSKey
  /\ rpc = "idle"
  /\ snapshot = {}
  /\ sSnapshot = {}
  /\ ctorArgs = NoArgs
  /\ ctorDone = TRUE
  /\ ctorErr = FALSE
  /\ pIn = {}
  /\ pOut = <<>>
  /\ logs = <<>>
  /\ maxPatterns = 0
  /\ li = 1
  /\ clusters = <<>>
  /\ clusterExamples = <<>>
  /\ logPatterns = <<>>
  /\ epc = "idle"
  /\ input = <<>>
  /\ chClosed = FALSE
  /\ next = 1
  /\ pcA = "select"
  /\ entry = NoEntry
  /\ decoder = FALSE
  /\ onMsgCb = "nil"
  /\ acc = Idle
  /\ queue = <<>>
  /\ collectorDone = FALSE
  /\ stopCalls = 0
  /\ atStop = Idle
  /\ forwarded = <<>>
  /\ emitted = <<>>
  /\ observed = <<>>

\* matchs := DetectSensitiveData(line, hash, catalog)
Detect ==
  /\ "v1" \notin dDone
  /\ dMatches' = DetectSensitiveData(dLine, Hash(NewPattern(dLine)), dCatalog)
  /\ dDone' = dDone \cup {"v1"}
  /\ UNCHANGED <<dLine, dCatalog, dMatchesV2, aggVars, lockVars, extVars>>

\* the same call in the second variant of the package
DetectV2 ==
  /\ "v2" \notin dDone
  /\ dMatchesV2' =
       DetectSensitiveDataV2(dLine, Hash(NewPattern(dLine)), dCatalog)
  /\ dDone' = dDone \cup {"v2"}
  /\ UNCHANGED <<dLine, dCatalog, dMatches, aggVars, lockVars, extVars>>

\* the line counted by processSensitivePattern of a parser holding the catalog
DetectCount ==
  /\ "count" \notin dDone
  /\ sensitivePatterns' \in
       processSensitivePattern(sensitivePatterns,
                               disableSensitivePatternDetection,
                               sensitivePatternsDefinations,
                               [level |-> "Info", content |-> dLine],
                               NewPattern(dLine))
  /\ dDone' = dDone \cup {"count"}
  /\ UNCHANGED <<dLine, dCatalog, dMatches, dMatchesV2, patterns,
                 patternsPerLevel, patternsPerLevelLimit,
                 sensitivePatternsDefinations,
                 disableSensitivePatternDetection, pc, msg, received,
                 lockVars, extVars>>

DetNext == Detect \/ DetectV2 \/ DetectCount

SpecDetect == DetectInit /\ [][DetNext]_vars

(***************************************************************************)
(* inc statement by statement under p.lock, beside a caller of GetCounters *)
(* and GetSensitiveCounters.                                               *)
(***************************************************************************)
\* the messages worker B receives here
LockMessages ==
  [level : {"Info", "Error"},
   content : {<<"err", "v1">>, <<"key", "AKIA1">>, <<"db", "key", "AKIA1">>}]

LockInit ==
  /\ patterns = <<>>
  /\ patternsPerLevel = [l \in Levels |-> 0]
  /\ patternsPerLevelLimit \in 1..MaxCap
  /\ sensitivePatterns = <<>>
  /\ disableSensitivePatternDetection = FALSE
  /\ sensitivePatternsDefinations =
       NewParserDefinations(disableSensitivePatternDetection)
  /\ pc = "recv"
  /\ msg = NoMsg
  /\ received = 0
  /\ dLine = <<>>
  /\ dCatalog = <<>>
  /\ dMatches = <<>>
  /\ dMatchesV2 = <<>>
  /\ dDone = {}
  /\ lockW = FALSE
  /\ lockR = 0
  /\ target = NoKey
  /\ sTarget = NoSKey
  /\ rpc = "idle"
  /\ snapshot = {}
  /\ sSnapshot = {}
  /\ ctorArgs = NoArgs
  /\ ctorDone = TRUE
  /\ ctorErr = FALSE
  /\ pIn = {}
  /\ pOut = <<>>
  /\ logs = <<>>
  /\ maxPatterns = 0
  /\ li = 1
  /\ clusters = <<>>
  /\ clusterExamples = <<>>
  /\ logPatterns = <<>>
  /\ epc = "idle"
  /\ input = <<>>
  /\ chClosed = FALSE
  /\ next = 1
  /\ pcA = "select"
  /\ entry = NoEntry
  /\ decoder = FALSE
  /\ onMsgCb = "nil"
  /\ acc = Idle
  /\ queue = <<>>
  /\ collectorDone = FALSE
  /\ stopCalls = 0
  /\ atStop = Idle
  /\ forwarded = <<>>
  /\ emitted = <<>>
  /\ observed = <<>>

\* sync.RWMutex: Lock returns when there is no writer and no reader
CanLock(w, r) == ~w /\ r = 0

\* mutant: the getter reads the maps without taking the lock
CanRLockAlways(w) == TRUE

\* sync.RWMutex: RLock returns when there is no writer
CanRLock(w) == ~w

cfgVars == <<patternsPerLevelLimit, sensitivePatternsDefinations,
             disableSensitivePatternDetection>>

\* inc: the statement after the lookup, after messages++ and after the
\* observer.  The low-signal branch counts and then calls the observer, the
\* high-signal branch calls the observer and then counts.
AfterFind(cb, m) ==
  IF cb # "nil" /\ ~IsLowSignal(m.level) THEN "callback" ELSE "bump"

AfterBump(cb, m) ==
  IF cb # "nil" /\ IsLowSignal(m.level) THEN "callback" ELSE "sfind"

AfterCallback(m) == IF IsLowSignal(m.level) THEN "sfind" ELSE "bump"

\* worker B: msg := <-p.multilineCollector.Messages
LRecv ==
  /\ pc = "recv"
  /\ received < MaxLockMsgs
  /\ \E m \in LockMessages : msg' = m
  /\ received' = received + 1
  /\ pc' = "lock"
  /\ UNCHANGED <<patterns, patternsPerLevel, sensitivePatterns, cfgVars,
                 detVars, extVars, lockVars>>

\* inc: p.lock.Lock()
LLock ==
  /\ pc = "lock"
  /\ CanLock(lockW, lockR)
  /\ lockW' = TRUE
  /\ pc' = "find"
  /\ UNCHANGED <<patterns, patternsPerLevel, sensitivePatterns, cfgVars,
                 msg, received, detVars, extVars, lockR, target, sTarget, rpc,
                 snapshot, sSnapshot>>

\* inc: the lookup, which may insert a stat with no message yet
LFind ==
  /\ pc = "find"
  /\ \E found \in Find(patterns, patternsPerLevel, patternsPerLevelLimit, msg) :
       /\ patterns' = found.patterns
       /\ target' = found.target
       /\ patternsPerLevel' = Counted(patternsPerLevel, msg, found)
  /\ pc' = AfterFind(onMsgCb, msg)
  /\ UNCHANGED <<sensitivePatterns, cfgVars, msg, received, detVars, extVars,
                 lockW, lockR, sTarget, rpc, snapshot, sSnapshot>>

\* inc: stat.messages++
LBump ==
  /\ pc = "bump"
  /\ patterns' = Bump(patterns, target)
  /\ pc' = AfterBump(onMsgCb, msg)
  /\ UNCHANGED <<patternsPerLevel, sensitivePatterns, cfgVars, msg, received,
                 detVars, extVars, lockVars>>

\* mutant: inc gives up the lock while the observer runs
ReleasedInCallback(w) == FALSE

\* the write lock at the call of the observer: inc took it at its first
\* statement and only the deferred Unlock gives it up
HeldInCallback(w) == w

\* inc: p.onMsgCb(...) is called
LCallback ==
  /\ pc = "callback"
  /\ lockW' = HeldInCallback(lockW)
  /\ pc' = "observer"
  /\ UNCHANGED <<patterns, patternsPerLevel, sensitivePatterns, cfgVars, msg,
                 received, detVars, extVars, lockR, target, sTarget, rpc,
                 snapshot, sSnapshot>>

\* inc: the observer returns.  An observer that calls GetCounters returns
\* once that call has taken the read lock, read the map and returned.
LCallbackReturn ==
  /\ pc = "observer"
  /\ IF onMsgCb = "reenters"
     THEN /\ CanRLock(lockW)
          /\ snapshot' = GetCounters
     ELSE UNCHANGED snapshot
  /\ pc' = AfterCallback(msg)
  /\ UNCHANGED <<patterns, patternsPerLevel, sensitivePatterns, cfgVars, msg,
                 received, detVars, extVars, lockW, lockR, target, sTarget,
                 rpc, sSnapshot>>

\* processSensitivePattern: detection and the lookup of the match
LSensitiveFind ==
  /\ pc = "sfind"
  /\ LET pattern == NewPattern(msg.content)
         matchs == SensitiveMatches(disableSensitivePatternDetection,
                                    sensitivePatternsDefinations, msg, pattern)
     IN  IF matchs = <<>>
         THEN /\ pc' = "unlock"
              /\ UNCHANGED <<sensitivePatterns, sTarget>>
         ELSE /\ \E f \in FindSensitive(sensitivePatterns, msg, pattern,
                                       matchs[1]) :
                   /\ sensitivePatterns' = f.sens
                   /\ sTarget' = f.target
              /\ pc' = "sbump"
  /\ UNCHANGED <<patterns, patternsPerLevel, cfgVars, msg, received, detVars, extVars,
                 lockW, lockR, target, rpc, snapshot, sSnapshot>>

\* processSensitivePattern: stat.messages++
LSensitiveBump ==
  /\ pc = "sbump"
  /\ sensitivePatterns' = Bump(sensitivePatterns, sTarget)
  /\ pc' = "unlock"
  /\ UNCHANGED <<patterns, patternsPerLevel, cfgVars, msg, received, detVars, extVars,
                 lockVars>>

\* inc: the deferred p.lock.Unlock()
LUnlock ==
  /\ pc = "unlock"
  /\ lockW' = FALSE
  /\ pc' = "recv"
  /\ msg' = NoMsg
  /\ target' = NoKey
  /\ sTarget' = NoSKey
  /\ UNCHANGED <<patterns, patternsPerLevel, sensitivePatterns, cfgVars,
                 received, detVars, extVars, lockR, rpc, snapshot, sSnapshot>>

\* GetCounters / GetSensitiveCounters: p.lock.RLock()
RLock ==
  /\ rpc = "idle"
  /\ CanRLock(lockW)
  /\ lockR' = lockR + 1
  /\ rpc' \in {"GetCounters", "GetSensitiveCounters"}
  /\ UNCHANGED <<aggVars, detVars, extVars, lockW, target, sTarget, snapshot,
                 sSnapshot>>

\* GetCounters: the loop over p.patterns
RCounters ==
  /\ rpc = "GetCounters"
  /\ snapshot' = GetCounters
  /\ rpc' = "return"
  /\ UNCHANGED <<aggVars, detVars, extVars, lockW, lockR, target, sTarget, sSnapshot>>

\* GetSensitiveCounters: the loop over p.sensitivePatterns
RSensitiveCounters ==
  /\ rpc = "GetSensitiveCounters"
  /\ sSnapshot' = GetSensitiveCounters
  /\ rpc' = "return"
  /\ UNCHANGED <<aggVars, detVars, extVars, lockW, lockR, target, sTarget, snapshot>>

\* the deferred p.lock.RUnlock()
RUnlock ==
  /\ rpc = "return"
  /\ lockR' = lockR - 1
  /\ rpc' = "idle"
  /\ UNCHANGED <<aggVars, detVars, extVars, lockW, target, sTarget, snapshot,
                 sSnapshot>>

LockNext ==
  \/ LRecv \/ LLock \/ LFind \/ LBump \/ LSensitiveFind \/ LSensitiveBump
  \/ LUnlock \/ RLock \/ RCounters \/ RSensitiveCounters \/ RUnlock

SpecLock == LockInit /\ [][LockNext]_vars

\* the same parser built with an observer: one that returns, or one that
\* calls GetCounters
CallbackInit ==
  /\ patterns = <<>>
  /\ patternsPerLevel = [l \in Levels |-> 0]
  /\ patternsPerLevelLimit \in 1..MaxCap
  /\ sensitivePatterns = <<>>
  /\ disableSensitivePatternDetection = FALSE
  /\ sensitivePatternsDefinations =
       NewParserDefinations(disableSensitivePatternDetection)
  /\ pc = "recv"
  /\ msg = NoMsg
  /\ received = 0
  /\ dLine = <<>>
  /\ dCatalog = <<>>
  /\ dMatches = <<>>
  /\ dMatchesV2 = <<>>
  /\ dDone = {}
  /\ lockW = FALSE
  /\ lockR = 0
  /\ target = NoKey
  /\ sTarget = NoSKey
  /\ rpc = "idle"
  /\ snapshot = {}
  /\ sSnapshot = {}
  /\ ctorArgs = NoArgs
  /\ ctorDone = TRUE
  /\ ctorErr = FALSE
  /\ pIn = {}
  /\ pOut = <<>>
  /\ logs = <<>>
  /\ maxPatterns = 0
  /\ li = 1
  /\ clusters = <<>>
  /\ clusterExamples = <<>>
  /\ logPatterns = <<>>
  /\ epc = "idle"
  /\ input = <<>>
  /\ chClosed = FALSE
  /\ next = 1
  /\ pcA = "select"
  /\ entry = NoEntry
  /\ decoder = FALSE
  /\ onMsgCb \in {"ok", "reenters"}
  /\ acc = Idle
  /\ queue = <<>>
  /\ collectorDone = FALSE
  /\ stopCalls = 0
  /\ atStop = Idle
  /\ forwarded = <<>>
  /\ emitted = <<>>
  /\ observed = <<>>

CallbackNext ==
  \/ LRecv \/ LLock \/ LFind \/ LBump \/ LCallback \/ LCallbackReturn
  \/ LSensitiveFind \/ LSensitiveBump \/ LUnlock
  \/ RLock \/ RCounters \/ RSensitiveCounters \/ RUnlock

SpecCallback == CallbackInit /\ [][CallbackNext]_vars

(***************************************************************************)
(* The getters beside a caller that writes to the lists they returned.     *)
(***************************************************************************)
SnapInit ==
  /\ patterns = <<>>
  /\ patternsPerLevel = [l \in Levels |-> 0]
  /\ patternsPerLevelLimit \in 1..MaxCap
  /\ sensitivePatterns = <<>>
  /\ disableSensitivePatternDetection = FALSE
  /\ sensitivePatternsDefinations =
       NewParserDefinations(disableSensitivePatternDetection)
  /\ pc = "recv"
  /\ msg = NoMsg
  /\ received = 0
  /\ dLine = <<>>
  /\ dCatalog = <<>>
  /\ dMatches = <<>>
  /\ dMatchesV2 = <<>>
  /\ dDone = {}
  /\ lockW = FALSE
  /\ lockR = 0
  /\ target = NoKey
  /\ sTarget = NoSKey
  /\ rpc = "idle"
  /\ snapshot = {}
  /\ sSnapshot = {}
  /\ ctorArgs = NoArgs
  /\ ctorDone = TRUE
  /\ ctorErr = FALSE
  /\ pIn = {}
  /\ pOut = <<>>
  /\ logs = <<>>
  /\ maxPatterns = 0
  /\ li = 1
  /\ clusters = <<>>
  /\ clusterExamples = <<>>
  /\ logPatterns = <<>>
  /\ epc = "idle"
  /\ input = <<>>
  /\ chClosed = FALSE
  /\ next = 1
  /\ pcA = "select"
  /\ entry = NoEntry
  /\ decoder = FALSE
  /\ onMsgCb = "nil"
  /\ acc = Idle
  /\ queue = <<>>
  /\ collectorDone = FALSE
  /\ stopCalls = 0
  /\ atStop = Idle
  /\ forwarded = <<>>
  /\ emitted = <<>>
  /\ observed = <<>>

\* worker B: msg := <-p.multilineCollector.Messages
SnapRecv ==
  /\ pc = "recv"
  /\ received < MaxLockMsgs
  /\ \E m \in LockMessages : msg' = m
  /\ received' = received + 1
  /\ pc' = "inc"
  /\ UNCHANGED <<patterns, patternsPerLevel, sensitivePatterns, cfgVars,
                 detVars, extVars, lockVars>>

\* GetCounters: res is a new slice of LogCounter values
SnapCounters ==
  /\ snapshot' = GetCounters
  /\ rpc' = "GetCounters"
  /\ UNCHANGED <<aggVars, detVars, extVars, lockW, lockR, target, sTarget,
                 sSnapshot>>

\* GetSensitiveCounters: res is a new slice of SensitiveLogCounter values
SnapSensitiveCounters ==
  /\ sSnapshot' = GetSensitiveCounters
  /\ rpc' = "GetSensitiveCounters"
  /\ UNCHANGED <<aggVars, detVars, extVars, lockW, lockR, target, sTarget,
                 snapshot>>

\* what the caller leaves in an element it overwrites
Overwritten(c) == [c EXCEPT !.Messages = 0, !.Sample = <<>>]

\* mutant: the list holds the aggregator's own stats
LogCounterWriteShared(pats, c) ==
  [pats EXCEPT ![PatternKey(c.Level, c.Hash)].messages = 0,
               ![PatternKey(c.Level, c.Hash)].sample = <<>>]

\* the aggregator after a write to a returned LogCounter: the element holds
\* the level, hash, sample and count by value
LogCounterWrite(pats, c) == pats

\* the aggregator after a write to a returned SensitiveLogCounter
SensitiveLogCounterWrite(sens, c) == sens

\* the caller overwrites an element of the list GetCounters returned, or
\* removes it from the list
CallerWrite ==
  /\ \E c \in snapshot :
       /\ c.Messages # 0
       /\ snapshot' \in {(snapshot \ {c}) \cup {Overwritten(c)},
                          snapshot \ {c}}
       /\ patterns' = LogCounterWrite(patterns, c)
  /\ rpc' = "write"
  /\ UNCHANGED <<patternsPerLevel, patternsPerLevelLimit, sensitivePatterns,
                 sensitivePatternsDefinations,
                 disableSensitivePatternDetection, pc, msg, received,
                 detVars, extVars, lockW, lockR, target, sTarget,
                 sSnapshot>>

\* the same for the list GetSensitiveCounters returned
CallerWriteSensitive ==
  /\ \E c \in sSnapshot :
       /\ c.Messages # 0
       /\ sSnapshot' \in {(sSnapshot \ {c}) \cup {Overwritten(c)},
                           sSnapshot \ {c}}
       /\ sensitivePatterns' = SensitiveLogCounterWrite(sensitivePatterns, c)
  /\ rpc' = "write"
  /\ UNCHANGED <<patterns, patternsPerLevel, patternsPerLevelLimit,
                 sensitivePatternsDefinations,
                 disableSensitivePatternDetection, pc, msg, received,
                 detVars, extVars, lockW, lockR, target, sTarget,
                 snapshot>>

SnapNext ==
  \/ SnapRecv \/ Inc \/ SnapCounters \/ SnapSensitiveCounters
  \/ CallerWrite \/ CallerWriteSensitive

SpecSnapshot == SnapInit /\ [][SnapNext]_vars

(***************************************************************************)
(* NewParser as a call.                                                    *)
(***************************************************************************)
\* LoadPatterns: the embedded catalog, or nil and the error of Unmarshal
LoadPatterns(loadFails) ==
  IF loadFails THEN [patterns |-> <<>>, err |-> TRUE]
  ELSE [patterns |-> DefaultCatalog, err |-> FALSE]

\* NewParser: p.sensitivePatternsDefinations
NewParserCatalog(args) ==
  IF args.disable THEN <<>>
  ELSE IF Len(args.patternsCompiled) > 0 THEN args.patternsCompiled
  ELSE LoadPatterns(args.loadFails).patterns

\* NewParser: the error its caller receives.  The function has one result,
\* the parser; the error of LoadPatterns is logged.
NewParserErr(args) == FALSE

\* the arguments of NewParser and the outcome of LoadPatterns
NewInit ==
  /\ ctorArgs \in [disable : BOOLEAN, patternsCompiled : Catalogs,
                   loadFails : BOOLEAN]
  /\ ctorDone = FALSE
  /\ ctorErr = FALSE
  /\ patterns = <<>>
  /\ patternsPerLevel = [l \in Levels |-> 0]
  /\ patternsPerLevelLimit = 1
  /\ sensitivePatterns = <<>>
  /\ disableSensitivePatternDetection = FALSE
  /\ sensitivePatternsDefinations = <<>>
  /\ pc = "recv"
  /\ msg = NoMsg
  /\ received = 0
  /\ dLine = <<>>
  /\ dCatalog = <<>>
  /\ dMatches = <<>>
  /\ dMatchesV2 = <<>>
  /\ dDone = {}
  /\ lockW = FALSE
  /\ lockR = 0
  /\ target = NoKey
  /\ sTarget = NoSKey
  /\ rpc = "idle"
  /\ snapshot = {}
  /\ sSnapshot = {}
  /\ pIn = {}
  /\ pOut = <<>>
  /\ logs = <<>>
  /\ maxPatterns = 0
  /\ li = 1
  /\ clusters = <<>>
  /\ clusterExamples = <<>>
  /\ logPatterns = <<>>
  /\ epc = "idle"
  /\ input = <<>>
  /\ chClosed = FALSE
  /\ next = 1
  /\ pcA = "select"
  /\ entry = NoEntry
  /\ decoder = FALSE
  /\ onMsgCb = "nil"
  /\ acc = Idle
  /\ queue = <<>>
  /\ collectorDone = FALSE
  /\ stopCalls = 0
  /\ atStop = Idle
  /\ forwarded = <<>>
  /\ emitted = <<>>
  /\ observed = <<>>

\* NewParser, up to the start of the workers
NewParser ==
  /\ ~ctorDone
  /\ patterns' = <<>>
  /\ sensitivePatterns' = <<>>
  /\ disableSensitivePatternDetection' = ctorArgs.disable
  /\ sensitivePatternsDefinations' = NewParserCatalog(ctorArgs)
  /\ ctorErr' = NewParserErr(ctorArgs)
  /\ ctorDone' = TRUE
  /\ UNCHANGED <<patternsPerLevel, patternsPerLevelLimit, pc, msg, received,
                 ctorArgs, detVars, lockVars, patVars, workVars,
                 extractVars>>

\* the first message of the parser just constructed: one inc
NewFirstInc ==
  /\ ctorDone
  /\ received = 0
  /\ \E m \in {[level |-> "Info", content |-> <<"db", "key", "AKIA1">>],
               [level |-> "Error", content |-> <<"err", "v1">>]} :
       /\ \E found \in Find(patterns, patternsPerLevel,
                            patternsPerLevelLimit, m) :
            /\ patterns' = Bump(found.patterns, found.target)
            /\ patternsPerLevel' = Counted(patternsPerLevel, m, found)
       /\ sensitivePatterns' \in
            processSensitivePattern(sensitivePatterns,
                                    disableSensitivePatternDetection,
                                    sensitivePatternsDefinations,
                                    m, NewPattern(m.content))
  /\ received' = 1
  /\ UNCHANGED <<patternsPerLevelLimit, sensitivePatternsDefinations,
                 disableSensitivePatternDetection, pc, msg, ctorVars,
                 detVars, lockVars, patVars, workVars, extractVars>>

NewNext == NewParser \/ NewFirstInc

SpecNew == NewInit /\ [][NewNext]_vars

(***************************************************************************)
(* The pipeline: a producer on the source channel, worker A with the       *)
(* decoder, the multiline collector, worker B with the observer, and Stop. *)
(***************************************************************************)
\* the entries the producer may send
EntryKinds ==
  { [level |-> "Error", content |-> <<"enc", "err", "v1">>],
    [level |-> "Unknown", content |-> <<"at", "db">>],
    [level |-> "Info", content |-> <<"enc", "key", "AKIA1">>] }

\* the entries of an input carry their position as timestamp
Stamp(s) ==
  [i \in 1..Len(s) |->
     [ts |-> i, level |-> s[i].level, content |-> s[i].content]]

Inputs == {Stamp(s) : s \in SeqsUpTo(EntryKinds, MaxEntries)}

\* Decoder.Decode: strips the envelope of an encoded content, fails on others
Decode(content) ==
  IF content # <<>> /\ Head(content) = "enc"
  THEN [content |-> Tail(content), err |-> FALSE]
  ELSE [content |-> <<>>, err |-> TRUE]

\* mutant: an entry whose decoding fails is forwarded as it came
DecodedKeepOnError(dec, e) == [forward |-> TRUE, entry |-> e]

\* worker A between the receive and Add: whether the entry goes on, and as what
Decoded(dec, e) ==
  IF ~dec THEN [forward |-> TRUE, entry |-> e]
  ELSE [forward |-> ~Decode(e.content).err,
        entry |-> [e EXCEPT !.content = Decode(e.content).content]]

\* first words of a line that continues the record before it
ContinuationMarkers == {"at"}

\* capacity of the collector's output queue
MessagesCap == 1

\* most continuation lines kept for one header
multilineCollectorLimit == 2

IsHeader(e) ==
  \/ e.level # "Unknown"
  \/ e.content # <<>> /\ Head(e.content) \notin ContinuationMarkers

RECURSIVE JoinLines(_, _)
JoinLines(content, parts) ==
  IF parts = <<>> THEN content
  ELSE JoinLines(content \o <<"\n">> \o Head(parts), Tail(parts))

\* the message of an accumulated header and its parts
MessageOf(a) ==
  [ts |-> a.header.ts, level |-> a.header.level,
   content |-> JoinLines(a.header.content, a.parts)]

\* mutant: a header ends the message before it without its parts
AddEmitsHeaderOnly(a, e) ==
  IF IsHeader(e)
  THEN IF a.state = "Accumulating"
       THEN <<[ts |-> a.header.ts, level |-> a.header.level,
               content |-> a.header.content]>>
       ELSE <<>>
  ELSE IF a.state = "Idle"
       THEN <<[ts |-> e.ts, level |-> "Unknown", content |-> e.content]>>
       ELSE <<>>

\* Add: the messages it emits
AddEmits(a, e) ==
  IF IsHeader(e)
  THEN IF a.state = "Accumulating" THEN <<MessageOf(a)>> ELSE <<>>
  ELSE IF a.state = "Idle"
       THEN <<[ts |-> e.ts, level |-> "Unknown", content |-> e.content]>>
       ELSE <<>>

\* the timeout T of the collector, in ticks of its clock
multilineCollectorTimeout == 1

\* the collector back in Idle
BackToIdle(a) == [Idle EXCEPT !.dropped = a.dropped]

\* mutant: a continuation is appended whatever the number of parts
AddAccNoLimit(a, e) ==
  IF IsHeader(e)
  THEN [state |-> "Accumulating", header |-> e, parts |-> <<>>,
        deadline |-> multilineCollectorTimeout, dropped |-> a.dropped]
  ELSE IF a.state = "Idle" THEN a
  ELSE [a EXCEPT !.parts = Append(@, e.content),
                 !.deadline = multilineCollectorTimeout]

\* Add: the state it leaves.  A header and every appended continuation set
\* the deadline to now + T; a continuation beyond the limit is dropped and
\* counted.
AddAcc(a, e) ==
  IF IsHeader(e)
  THEN [state |-> "Accumulating", header |-> e, parts |-> <<>>,
        deadline |-> multilineCollectorTimeout, dropped |-> a.dropped]
  ELSE IF a.state = "Idle" THEN a
  ELSE IF Len(a.parts) < multilineCollectorLimit
       THEN [a EXCEPT !.parts = Append(@, e.content),
                      !.deadline = multilineCollectorTimeout]
       ELSE [a EXCEPT !.dropped = @ + 1]

\* the observer's arguments
OnMsgArgs(m, hash) ==
  [ts |-> m.ts, level |-> m.level, hash |-> hash, content |-> m.content]

\* mutant: the hash of the pattern is passed at every level
CallbackHashAlways(m) == Hash(NewPattern(m.content))

\* the hash inc passes to the observer: "" or key.hash
CallbackHash(m) ==
  IF IsLowSignal(m.level) THEN EmptyHash
  ELSE NewKey(m, NewPattern(m.content)).hash

\* mutant: worker B calls the observer twice for a message
ObserveTwice(cb, calls, m) ==
  IF cb = "nil" THEN calls
  ELSE Append(Append(calls, OnMsgArgs(m, CallbackHash(m))),
              OnMsgArgs(m, CallbackHash(m)))

\* if p.onMsgCb != nil { p.onMsgCb(...) }
Observe(cb, calls, m) ==
  IF cb = "nil" THEN calls ELSE Append(calls, OnMsgArgs(m, CallbackHash(m)))

\* a parser with its workers started, an input, a decoder or none, an
\* observer or none
WorkInit ==
  /\ input \in Inputs
  /\ chClosed = FALSE
  /\ decoder \in BOOLEAN
  /\ onMsgCb \in {"nil", "ok", "panics"}
  /\ next = 1
  /\ pcA = "select"
  /\ entry = NoEntry
  /\ acc = Idle
  /\ queue = <<>>
  /\ collectorDone = FALSE
  /\ stopCalls = 0
  /\ atStop = Idle
  /\ forwarded = <<>>
  /\ emitted = <<>>
  /\ observed = <<>>
  /\ patterns = <<>>
  /\ patternsPerLevel = [l \in Levels |-> 0]
  /\ patternsPerLevelLimit = 1
  /\ sensitivePatterns = <<>>
  /\ disableSensitivePatternDetection = FALSE
  /\ sensitivePatternsDefinations = DefaultCatalog
  /\ pc = "recv"
  /\ msg = NoMsg
  /\ received = 0
  /\ dLine = <<>>
  /\ dCatalog = <<>>
  /\ dMatches = <<>>
  /\ dMatchesV2 = <<>>
  /\ dDone = {}
  /\ lockW = FALSE
  /\ lockR = 0
  /\ target = NoKey
  /\ sTarget = NoSKey
  /\ rpc = "idle"
  /\ snapshot = {}
  /\ sSnapshot = {}
  /\ ctorArgs = NoArgs
  /\ ctorDone = TRUE
  /\ ctorErr = FALSE
  /\ pIn = {}
  /\ pOut = <<>>
  /\ logs = <<>>
  /\ maxPatterns = 0
  /\ li = 1
  /\ clusters = <<>>
  /\ clusterExamples = <<>>
  /\ logPatterns = <<>>
  /\ epc = "idle"

\* the lines of a stack trace: a header and two continuation lines
LineKinds ==
  { [level |-> "Error", content |-> <<"err", "v1">>],
    [level |-> "Unknown", content |-> <<"at", "db">>],
    [level |-> "Unknown", content |-> <<"at", "v1">>] }

\* most lines of an input of the collector
MaxLines == 4

Lines == {Stamp(s) : s \in SeqsUpTo(LineKinds, MaxLines)}

\* a parser with its workers started, without decoder, with an observer or
\* none, fed the lines of multi-line records
CollectInit ==
  /\ input \in Lines
  /\ chClosed = FALSE
  /\ decoder = FALSE
  /\ onMsgCb \in {"nil", "ok"}
  /\ next = 1
  /\ pcA = "select"
  /\ entry = NoEntry
  /\ acc = Idle
  /\ queue = <<>>
  /\ collectorDone = FALSE
  /\ stopCalls = 0
  /\ atStop = Idle
  /\ forwarded = <<>>
  /\ emitted = <<>>
  /\ observed = <<>>
  /\ patterns = <<>>
  /\ patternsPerLevel = [l \in Levels |-> 0]
  /\ patternsPerLevelLimit = 1
  /\ sensitivePatterns = <<>>
  /\ disableSensitivePatternDetection = FALSE
  /\ sensitivePatternsDefinations = DefaultCatalog
  /\ pc = "recv"
  /\ msg = NoMsg
  /\ received = 0
  /\ dLine = <<>>
  /\ dCatalog = <<>>
  /\ dMatches = <<>>
  /\ dMatchesV2 = <<>>
  /\ dDone = {}
  /\ lockW = FALSE
  /\ lockR = 0
  /\ target = NoKey
  /\ sTarget = NoSKey
  /\ rpc = "idle"
  /\ snapshot = {}
  /\ sSnapshot = {}
  /\ ctorArgs = NoArgs
  /\ ctorDone = TRUE
  /\ ctorErr = FALSE
  /\ pIn = {}
  /\ pOut = <<>>
  /\ logs = <<>>
  /\ maxPatterns = 0
  /\ li = 1
  /\ clusters = <<>>
  /\ clusterExamples = <<>>
  /\ logPatterns = <<>>
  /\ epc = "idle"

\* the same with an observer that returns
FairInit ==
  /\ input \in {in \in Inputs : Len(in) <= MaxFairEntries}
  /\ chClosed = FALSE
  /\ decoder \in BOOLEAN
  /\ onMsgCb \in {"nil", "ok"}
  /\ next = 1
  /\ pcA = "select"
  /\ entry = NoEntry
  /\ acc = Idle
  /\ queue = <<>>
  /\ collectorDone = FALSE
  /\ stopCalls = 0
  /\ atStop = Idle
  /\ forwarded = <<>>
  /\ emitted = <<>>
  /\ observed = <<>>
  /\ patterns = <<>>
  /\ patternsPerLevel = [l \in Levels |-> 0]
  /\ patternsPerLevelLimit = 1
  /\ sensitivePatterns = <<>>
  /\ disableSensitivePatternDetection = FALSE
  /\ sensitivePatternsDefinations = DefaultCatalog
  /\ pc = "recv"
  /\ msg = NoMsg
  /\ received = 0
  /\ dLine = <<>>
  /\ dCatalog = <<>>
  /\ dMatches = <<>>
  /\ dMatchesV2 = <<>>
  /\ dDone = {}
  /\ lockW = FALSE
  /\ lockR = 0
  /\ target = NoKey
  /\ sTarget = NoSKey
  /\ rpc = "idle"
  /\ snapshot = {}
  /\ sSnapshot = {}
  /\ ctorArgs = NoArgs
  /\ ctorDone = TRUE
  /\ ctorErr = FALSE
  /\ pIn = {}
  /\ pOut = <<>>
  /\ logs = <<>>
  /\ maxPatterns = 0
  /\ li = 1
  /\ clusters = <<>>
  /\ clusterExamples = <<>>
  /\ logPatterns = <<>>
  /\ epc = "idle"

parserVars == <<patterns, patternsPerLevel, patternsPerLevelLimit,
                sensitivePatterns, sensitivePatternsDefinations,
                disableSensitivePatternDetection>>
otherVars == <<detVars, lockW, lockR, target, sTarget, rpc, ctorVars, patVars,
               extractVars>>

\* mutant: Stop does not cancel the context of the workers
NeverCancelled(calls) == FALSE

\* ctx.Done() is closed once the cancel function has been called
Cancelled(calls) == calls > 0

\* worker A: case entry := <-ch
ARecv ==
  /\ pcA = "select"
  /\ next <= Len(input)
  /\ entry' = input[next]
  /\ next' = next + 1
  /\ pcA' = "got"
  /\ UNCHANGED <<input, chClosed, decoder, onMsgCb, acc, queue, collectorDone,
                 stopCalls, atStop, forwarded, emitted, observed, parserVars, pc,
                 msg, received, snapshot, sSnapshot, otherVars>>

\* worker A: Decode, then continue or p.multilineCollector.Add(entry).  A
\* send of the collector waits for room in the queue and is given up once
\* the context is cancelled.
AForward ==
  /\ pcA = "got"
  /\ LET d == Decoded(decoder, entry)
         emits == AddEmits(acc, d.entry)
     IN  IF ~d.forward
         THEN UNCHANGED <<acc, queue, forwarded, emitted>>
         ELSE IF collectorDone
         THEN /\ forwarded' = Append(forwarded, d.entry)
              /\ UNCHANGED <<acc, queue, emitted>>
         ELSE /\ \/ Len(queue) + Len(emits) <= MessagesCap
                 \/ Cancelled(stopCalls)
              /\ forwarded' = Append(forwarded, d.entry)
              /\ acc' = AddAcc(acc, d.entry)
              /\ IF Len(queue) + Len(emits) <= MessagesCap
                 THEN /\ queue' = queue \o emits
                      /\ emitted' = emitted \o emits
                 ELSE UNCHANGED <<queue, emitted>>
  /\ pcA' = "select"
  /\ entry' = NoEntry
  /\ UNCHANGED <<input, chClosed, next, decoder, onMsgCb, collectorDone,
                 stopCalls, atStop,
                 observed, parserVars, pc, msg, received, snapshot,
                 sSnapshot, otherVars>>

\* worker A: case <-ctx.Done(): return
AExit ==
  /\ pcA = "select"
  /\ Cancelled(stopCalls)
  /\ pcA' = "exit"
  /\ UNCHANGED <<input, chClosed, next, entry, decoder, onMsgCb, acc, queue,
                 collectorDone, stopCalls, atStop, forwarded, emitted, observed,
                 parserVars, pc, msg, received, snapshot, sSnapshot,
                 otherVars>>

\* the collector's clock: a tick towards the deadline
CTick ==
  /\ ~collectorDone
  /\ acc.state = "Accumulating"
  /\ acc.deadline > 0
  /\ acc' = [acc EXCEPT !.deadline = @ - 1]
  /\ UNCHANGED <<input, chClosed, next, pcA, entry, decoder, onMsgCb, queue,
                 collectorDone, stopCalls, atStop, forwarded, emitted,
                 observed, parserVars, pc, msg, received, snapshot,
                 sSnapshot, otherVars>>

\* mutant: the collector emits whatever the deadline
TimedOutAlways(a) == TRUE

\* the deadline of the accumulated message has passed
TimedOut(a) == a.deadline = 0

\* the collector: the deadline has passed, the accumulated message is emitted
CTimeout ==
  /\ ~collectorDone
  /\ acc.state = "Accumulating"
  /\ TimedOut(acc)
  /\ Len(queue) < MessagesCap
  /\ queue' = Append(queue, MessageOf(acc))
  /\ emitted' = Append(emitted, MessageOf(acc))
  /\ acc' = BackToIdle(acc)
  /\ UNCHANGED <<input, chClosed, next, pcA, entry, decoder, onMsgCb,
                 collectorDone,
                 stopCalls, atStop, forwarded, observed, parserVars, pc, msg,
                 received, snapshot, sSnapshot, otherVars>>

\* the collector on shutdown: emit the in-flight message, then terminate
CShutdown ==
  /\ Cancelled(stopCalls)
  /\ ~collectorDone
  /\ IF acc.state = "Accumulating" /\ Len(queue) < MessagesCap
     THEN /\ queue' = Append(queue, MessageOf(acc))
          /\ emitted' = Append(emitted, MessageOf(acc))
     ELSE UNCHANGED <<queue, emitted>>
  /\ acc' = BackToIdle(acc)
  /\ collectorDone' = TRUE
  /\ UNCHANGED <<input, chClosed, next, pcA, entry, decoder, onMsgCb,
                 stopCalls, atStop,
                 forwarded, observed, parserVars, pc, msg, received,
                 snapshot, sSnapshot, otherVars>>

\* worker B: case msg := <-p.multilineCollector.Messages
BRecv ==
  /\ pc = "recv"
  /\ queue # <<>>
  /\ msg' = Head(queue)
  /\ queue' = Tail(queue)
  /\ received' = received + 1
  /\ pc' = "inc"
  /\ UNCHANGED <<input, chClosed, next, pcA, entry, decoder, onMsgCb, acc,
                 collectorDone, stopCalls, atStop, forwarded, emitted, observed,
                 parserVars, snapshot, sSnapshot, otherVars>>

\* worker B: p.inc(msg) with the observer.  A panic of the observer leaves
\* inc through the deferred Unlock and ends the process: in the low-signal
\* branch after messages++, in the high-signal branch before it.
BInc ==
  /\ pc = "inc"
  /\ IF onMsgCb = "panics"
     THEN /\ \E found \in Find(patterns, patternsPerLevel,
                               patternsPerLevelLimit, msg) :
               /\ patterns' = IF IsLowSignal(msg.level)
                              THEN Bump(found.patterns, found.target)
                              ELSE found.patterns
               /\ patternsPerLevel' = Counted(patternsPerLevel, msg, found)
          /\ pc' = "crashed"
          /\ pcA' = "crashed"
          /\ UNCHANGED <<sensitivePatterns, observed, msg>>
     ELSE /\ \E found \in Find(patterns, patternsPerLevel,
                               patternsPerLevelLimit, msg) :
               /\ patterns' = Bump(found.patterns, found.target)
               /\ patternsPerLevel' = Counted(patternsPerLevel, msg, found)
          /\ observed' = Observe(onMsgCb, observed, msg)
          /\ sensitivePatterns' \in
               processSensitivePattern(sensitivePatterns,
                                       disableSensitivePatternDetection,
                                       sensitivePatternsDefinations,
                                       msg, NewPattern(msg.content))
          /\ pc' = "recv"
          /\ msg' = NoMsg
          /\ UNCHANGED pcA
  /\ UNCHANGED <<input, chClosed, next, entry, decoder, onMsgCb, acc, queue,
                 collectorDone, stopCalls, atStop, forwarded, emitted,
                 patternsPerLevelLimit, sensitivePatternsDefinations,
                 disableSensitivePatternDetection, received, snapshot,
                 sSnapshot, otherVars>>

\* worker B: case <-ctx.Done(): return
BExit ==
  /\ pc = "recv"
  /\ Cancelled(stopCalls)
  /\ pc' = "exit"
  /\ UNCHANGED <<input, chClosed, next, pcA, entry, decoder, onMsgCb, acc, queue,
                 collectorDone, stopCalls, atStop, forwarded, emitted, observed,
                 parserVars, msg, received, snapshot, sSnapshot, otherVars>>

\* Parser.Stop: p.stop(), the cancel function of the context
Stop ==
  /\ stopCalls < MaxStops
  /\ pc # "crashed"
  /\ stopCalls' = stopCalls + 1
  /\ atStop' = IF stopCalls = 0 THEN acc ELSE atStop
  /\ UNCHANGED <<input, chClosed, next, pcA, entry, decoder, onMsgCb, acc, queue,
                 collectorDone, forwarded, emitted, observed, parserVars,
                 pc, msg, received, snapshot, sSnapshot, otherVars>>

\* a caller of GetCounters and GetSensitiveCounters after Stop
StoppedGetters ==
  /\ stopCalls > 0
  /\ pc # "crashed"
  /\ snapshot' = GetCounters
  /\ sSnapshot' = GetSensitiveCounters
  /\ UNCHANGED <<workVars, parserVars, pc, msg, received, otherVars>>

WorkerA == ARecv \/ AForward \/ AExit
WorkerB == BRecv \/ BInc \/ BExit

WorkNext ==
  \/ WorkerA \/ WorkerB \/ CTick \/ CTimeout \/ CShutdown \/ Stop
  \/ StoppedGetters

SpecWorkers == WorkInit /\ [][WorkNext]_vars

\* the pipeline of a parser that is not stopped: worker A feeds the
\* collector, its clock runs, worker B counts what it emits
CollectNext == ARecv \/ AForward \/ CTick \/ CTimeout \/ BRecv \/ BInc

SpecCollect == CollectInit /\ [][CollectNext]_vars

(***************************************************************************)
(* The producer: it sends its entries on the unbuffered channel ch, and    *)
(* after the last send it may close ch and, as main does, call GetCounters.*)
(***************************************************************************)
\* LogEntry{}: what a receive from a closed channel yields
ZeroEntry == [ts |-> 0, level |-> "Unknown", content |-> <<>>]

\* most receives of worker A from the closed channel that reach the collector
MaxClosedRecvs == 2

\* a parser with its workers started and a producer about to send
ProducerInit ==
  /\ input \in Inputs
  /\ chClosed = FALSE
  /\ decoder \in BOOLEAN
  /\ onMsgCb = "nil"
  /\ next = 1
  /\ pcA = "select"
  /\ entry = NoEntry
  /\ acc = Idle
  /\ queue = <<>>
  /\ collectorDone = FALSE
  /\ stopCalls = 0
  /\ atStop = Idle
  /\ forwarded = <<>>
  /\ emitted = <<>>
  /\ observed = <<>>
  /\ patterns = <<>>
  /\ patternsPerLevel = [l \in Levels |-> 0]
  /\ patternsPerLevelLimit = 1
  /\ sensitivePatterns = <<>>
  /\ disableSensitivePatternDetection = FALSE
  /\ sensitivePatternsDefinations = DefaultCatalog
  /\ pc = "recv"
  /\ msg = NoMsg
  /\ received = 0
  /\ dLine = <<>>
  /\ dCatalog = <<>>
  /\ dMatches = <<>>
  /\ dMatchesV2 = <<>>
  /\ dDone = {}
  /\ lockW = FALSE
  /\ lockR = 0
  /\ target = NoKey
  /\ sTarget = NoSKey
  /\ rpc = "idle"
  /\ snapshot = {}
  /\ sSnapshot = {}
  /\ ctorArgs = NoArgs
  /\ ctorDone = TRUE
  /\ ctorErr = FALSE
  /\ pIn = {}
  /\ pOut = <<>>
  /\ logs = <<>>
  /\ maxPatterns = 0
  /\ li = 1
  /\ clusters = <<>>
  /\ clusterExamples = <<>>
  /\ logPatterns = <<>>
  /\ epc = "idle"

\* the producer: close(ch), after its last send was received
CloseCh ==
  /\ ~chClosed
  /\ next > Len(input)
  /\ chClosed' = TRUE
  /\ UNCHANGED <<input, next, pcA, entry, decoder, onMsgCb, acc, queue,
                 collectorDone, stopCalls, atStop, forwarded, emitted,
                 observed, parserVars, pc, msg, received, snapshot,
                 sSnapshot, otherVars>>

\* worker A: case entry := <-ch on the closed channel: the receive returns
\* at once with the zero value (the code does not ask for the ok result)
ARecvClosed ==
  /\ pcA = "select"
  /\ chClosed
  /\ Len(forwarded) < Len(input) + MaxClosedRecvs
  /\ entry' = ZeroEntry
  /\ pcA' = "got"
  /\ UNCHANGED <<input, chClosed, next, decoder, onMsgCb, acc, queue,
                 collectorDone, stopCalls, atStop, forwarded, emitted,
                 observed, parserVars, pc, msg, received, snapshot,
                 sSnapshot, otherVars>>

\* main: counters := parser.GetCounters(), right after the loop that sends
\* the lines
MainGetCounters ==
  /\ next > Len(input)
  /\ rpc = "idle"
  /\ snapshot' = GetCounters
  /\ rpc' = "GetCounters"
  /\ UNCHANGED <<aggVars, detVars, extVars, lockW, lockR, target, sTarget,
                 sSnapshot>>

ProducerNext ==
  \/ ARecv \/ ARecvClosed \/ AForward \/ CTick \/ CTimeout \/ BRecv \/ BInc
  \/ CloseCh \/ MainGetCounters

SpecProducer == ProducerInit /\ [][ProducerNext]_vars

\* the goroutines of the two workers and of the collector are scheduled, and
\* the collector's clock runs
SpecWorkersFair ==
  /\ FairInit
  /\ [][WorkNext]_vars
  /\ WF_vars(WorkerA)
  /\ WF_vars(WorkerB)
  /\ WF_vars(CTick)
  /\ WF_vars(CTimeout)
  /\ WF_vars(CShutdown)

(***************************************************************************)
(* The tokenizer and the pattern on their own: up to three contents are     *)
(* drawn, their patterns are built, hashed and compared with one another.  *)
(***************************************************************************)
PatternWords == {"err", "db", "v1", "v2"}

PatternContents == SeqsUpTo(PatternWords, MaxTokens)

\* the sets of one to three contents
PatternInputs ==
  {{a, b, c} : a \in PatternContents, b \in PatternContents,
               c \in PatternContents}

PatternInit ==
  /\ ctorArgs = NoArgs
  /\ ctorDone = TRUE
  /\ ctorErr = FALSE
  /\ patterns = <<>>
  /\ patternsPerLevel = [l \in Levels |-> 0]
  /\ patternsPerLevelLimit = 1
  /\ sensitivePatterns = <<>>
  /\ disableSensitivePatternDetection = FALSE
  /\ sensitivePatternsDefinations = <<>>
  /\ pc = "recv"
  /\ msg = NoMsg
  /\ received = 0
  /\ dLine = <<>>
  /\ dCatalog = <<>>
  /\ dMatches = <<>>
  /\ dMatchesV2 = <<>>
  /\ dDone = {}
  /\ lockW = FALSE
  /\ lockR = 0
  /\ target = NoKey
  /\ sTarget = NoSKey
  /\ rpc = "idle"
  /\ snapshot = {}
  /\ sSnapshot = {}
  /\ pIn \in PatternInputs
  /\ pOut = <<>>
  /\ logs = <<>>
  /\ maxPatterns = 0
  /\ li = 1
  /\ clusters = <<>>
  /\ clusterExamples = <<>>
  /\ logPatterns = <<>>
  /\ epc = "idle"
  /\ input = <<>>
  /\ chClosed = FALSE
  /\ next = 1
  /\ pcA = "select"
  /\ entry = NoEntry
  /\ decoder = FALSE
  /\ onMsgCb = "nil"
  /\ acc = Idle
  /\ queue = <<>>
  /\ collectorDone = FALSE
  /\ stopCalls = 0
  /\ atStop = Idle
  /\ forwarded = <<>>
  /\ emitted = <<>>
  /\ observed = <<>>

\* NewPattern, Hash and WeakEqual applied to the contents
ApplyPattern ==
  /\ pIn # {}
  /\ pOut = <<>>
  /\ logs = <<>>
  /\ maxPatterns = 0
  /\ li = 1
  /\ clusters = <<>>
  /\ clusterExamples = <<>>
  /\ logPatterns = <<>>
  /\ epc = "idle"
  /\ pOut' = [pattern |-> [c \in pIn |-> NewPattern(c)],
              hash |-> [c \in pIn |-> Hash(NewPattern(c))],
              weakEqual |-> [a \in pIn |-> [b \in pIn |->
                             WeakEqual(NewPattern(a), NewPattern(b))]]]
  /\ UNCHANGED <<aggVars, detVars, lockVars, ctorVars, workVars, extractVars,
                 pIn>>

PatternNext == ApplyPattern

SpecPattern == PatternInit /\ [][PatternNext]_vars

(***************************************************************************)
(* ExtractPatterns: the logs are clustered by drain, the clusters become   *)
(* LogPatterns, which are sorted and cut to maxPatterns.                   *)
(***************************************************************************)
Whitespace == {" "}

\* the log lines: sequences of words and white space
LogLines ==
  { <<>>, <<" ">>, <<"err">>, <<"db", "err">>, <<"*", "db">> }

\* the words in the byte order of Go's string comparison
TokenOrder == <<"*", "db", "err">>

Rank(tok) == CHOOSE i \in 1..Len(TokenOrder) : TokenOrder[i] = tok

\* a < b on templates: tokens joined by " ", which sorts before every word
RECURSIVE StringLess(_, _)
StringLess(a, b) ==
  IF b = <<>> THEN FALSE
  ELSE IF a = <<>> THEN TRUE
  ELSE IF Head(a) = Head(b) THEN StringLess(Tail(a), Tail(b))
  ELSE Rank(Head(a)) < Rank(Head(b))

\* strings.TrimSpace(log) == ""
IsBlank(log) == \A i \in 1..Len(log) : log[i] \in Whitespace

IsToken(word) == word \notin Whitespace
Tokens(log) == SelectSeq(log, IsToken)

\* drain: a template after a log joined its cluster
Generalise(template, tokens) ==
  [i \in 1..Len(template) |->
     IF template[i] = tokens[i] THEN template[i] ELSE "<*>"]

\* drain.AddLogMessage: the log joins a cluster of its number of tokens or
\* opens a new one; which one is the library's choice
AddLogMessage(cs, log) ==
  {[clusters |-> Append(cs, [ClusterId |-> Len(cs) + 1,
                             LogTemplateTokens |-> Tokens(log),
                             Size |-> 1]),
    cluster |-> Len(cs) + 1]}
  \cup
  {[clusters |-> [cs EXCEPT ![i] =
                    [ClusterId |-> i,
                     LogTemplateTokens |->
                       Generalise(cs[i].LogTemplateTokens, Tokens(log)),
                     Size |-> cs[i].Size + 1]],
    cluster |-> i] :
     i \in {j \in 1..Len(cs) :
              Len(cs[j].LogTemplateTokens) = Len(Tokens(log))}}

\* formatDrainTemplate: the tokens joined, "<*>" shown as "*"
formatDrainTemplate(cluster) ==
  [i \in 1..Len(cluster.LogTemplateTokens) |->
     IF cluster.LogTemplateTokens[i] = "<*>" THEN "*"
     ELSE cluster.LogTemplateTokens[i]]

\* the example of a cluster, logs[0] when there is none
ExampleOf(examples, ls, cluster) ==
  IF cluster.ClusterId \in DOMAIN examples /\ examples[cluster.ClusterId] # <<>>
  THEN examples[cluster.ClusterId]
  ELSE ls[1]

\* the LogPattern of a cluster, its percentage still 0
NewLogPattern(examples, ls, cluster) ==
  [Template |-> formatDrainTemplate(cluster),
   Count |-> cluster.Size,
   Percentage |-> [num |-> 0, den |-> 1],
   Example |-> ExampleOf(examples, ls, cluster)]

\* the patterns of the clusters in the order given, empty templates skipped
RECURSIVE Collect(_, _, _)
Collect(examples, ls, cs) ==
  IF cs = <<>> THEN <<>>
  ELSE IF formatDrainTemplate(Head(cs)) # <<>>
       THEN <<NewLogPattern(examples, ls, Head(cs))>>
              \o Collect(examples, ls, Tail(cs))
       ELSE Collect(examples, ls, Tail(cs))

RECURSIVE TotalCount(_)
TotalCount(ps) ==
  IF ps = <<>> THEN 0 ELSE Head(ps).Count + TotalCount(Tail(ps))

\* float64(Count) * 100.0 / float64(totalCount), kept as a fraction
WithPercentages(ps) ==
  IF TotalCount(ps) > 0
  THEN [i \in 1..Len(ps) |->
          [ps[i] EXCEPT !.Percentage =
             [num |-> ps[i].Count * 100, den |-> TotalCount(ps)]]]
  ELSE ps

\* mutant: the most frequent pattern last
LessAscending(a, b) ==
  IF a.Count = b.Count THEN StringLess(a.Template, b.Template)
  ELSE a.Count < b.Count

\* the less function given to sort.Slice
Less(a, b) ==
  IF a.Count = b.Count THEN StringLess(a.Template, b.Template)
  ELSE a.Count > b.Count

RECURSIVE InsertSorted(_, _)
InsertSorted(s, x) ==
  IF s = <<>> THEN <<x>>
  ELSE IF Less(x, Head(s)) THEN <<x>> \o s
  ELSE <<Head(s)>> \o InsertSorted(Tail(s), x)

\* sort.Slice(patterns, less)
RECURSIVE SortSlice(_)
SortSlice(s) ==
  IF s = <<>> THEN <<>>
  ELSE InsertSorted(SortSlice(SubSeq(s, 1, Len(s) - 1)), s[Len(s)])

\* mutant: the cut keeps one pattern too many
LimitOneMore(ps, max) ==
  IF max > 0 /\ Len(ps) > max + 1 THEN SubSeq(ps, 1, max + 1) ELSE ps

\* patterns[:maxPatterns] when maxPatterns > 0 and there are more
Limit(ps, max) ==
  IF max > 0 /\ Len(ps) > max THEN SubSeq(ps, 1, max) ELSE ps

\* the orders in which drain.GetClusters may list the clusters
Orders(cs) ==
  {o \in [1..Len(cs) -> 1..Len(cs)] :
     \A i, j \in 1..Len(cs) : i # j => o[i] # o[j]}

ExtractInit ==
  /\ ctorArgs = NoArgs
  /\ ctorDone = TRUE
  /\ ctorErr = FALSE
  /\ patterns = <<>>
  /\ patternsPerLevel = [l \in Levels |-> 0]
  /\ patternsPerLevelLimit = 1
  /\ sensitivePatterns = <<>>
  /\ disableSensitivePatternDetection = FALSE
  /\ sensitivePatternsDefinations = <<>>
  /\ pc = "recv"
  /\ msg = NoMsg
  /\ received = 0
  /\ dLine = <<>>
  /\ dCatalog = <<>>
  /\ dMatches = <<>>
  /\ dMatchesV2 = <<>>
  /\ dDone = {}
  /\ lockW = FALSE
  /\ lockR = 0
  /\ target = NoKey
  /\ sTarget = NoSKey
  /\ rpc = "idle"
  /\ snapshot = {}
  /\ sSnapshot = {}
  /\ pIn = {}
  /\ pOut = <<>>
  /\ logs \in SeqsUpTo(LogLines, MaxLogs)
  /\ maxPatterns \in 0..MaxPatterns
  /\ li = 1
  /\ clusters = <<>>
  /\ clusterExamples = <<>>
  /\ logPatterns = <<>>
  /\ epc = "loop"
  /\ input = <<>>
  /\ chClosed = FALSE
  /\ next = 1
  /\ pcA = "select"
  /\ entry = NoEntry
  /\ decoder = FALSE
  /\ onMsgCb = "nil"
  /\ acc = Idle
  /\ queue = <<>>
  /\ collectorDone = FALSE
  /\ stopCalls = 0
  /\ atStop = Idle
  /\ forwarded = <<>>
  /\ emitted = <<>>
  /\ observed = <<>>

\* the loop over logs: a blank log, or one drain refuses, is passed over
ExtractSkip ==
  /\ epc = "loop"
  /\ li <= Len(logs)
  /\ li' = li + 1
  /\ UNCHANGED <<aggVars, detVars, lockVars, ctorVars, patVars, workVars,
                 logs, maxPatterns, clusters, clusterExamples, logPatterns,
                 epc>>

\* the loop over logs: the log is added to drain and kept as the example of
\* its cluster if that has none
ExtractAdd ==
  /\ epc = "loop"
  /\ li <= Len(logs)
  /\ ~IsBlank(logs[li])
  /\ \E added \in AddLogMessage(clusters, logs[li]) :
       /\ clusters' = added.clusters
       /\ clusterExamples' =
            IF added.cluster \in DOMAIN clusterExamples THEN clusterExamples
            ELSE Put(clusterExamples, added.cluster, logs[li])
  /\ li' = li + 1
  /\ UNCHANGED <<aggVars, detVars, lockVars, ctorVars, patVars, workVars,
                 logs, maxPatterns, logPatterns, epc>>

\* after the loop (at once when logs is empty): the patterns of the
\* clusters, with their percentages, sorted and cut
ExtractReturn ==
  /\ epc = "loop"
  /\ li > Len(logs)
  /\ \E o \in Orders(clusters) :
       logPatterns' =
         Limit(SortSlice(WithPercentages(
                 Collect(clusterExamples, logs,
                         [i \in 1..Len(clusters) |-> clusters[o[i]]]))),
               maxPatterns)
  /\ epc' = "done"
  /\ UNCHANGED <<aggVars, detVars, lockVars, ctorVars, patVars, workVars,
                 logs, maxPatterns, li, clusters, clusterExamples>>

ExtractNext == ExtractSkip \/ ExtractAdd \/ ExtractReturn

SpecExtract == ExtractInit /\ [][ExtractNext]_vars

(***************************************************************************)
(* Properties.                                                             *)
(***************************************************************************)
HighSignalLevels == {level \in Levels : ~IsLowSignal(level)}

\* the entries of a level other than its overflow entry
RegularKeys(pats, level) ==
  {k \in DOMAIN pats : k.level = level /\ k.hash # unclassifiedPatternHash}

\* the message matches no stored entry, neither by hash nor by weakEqual
NoMatch(pats, m) ==
  /\ PatternKey(m.level, Hash(NewPattern(m.content))) \notin DOMAIN pats
  /\ \A k \in DOMAIN pats :
       k.level = m.level => ~WeakEqual(pats[k].pattern, NewPattern(m.content))

C2_OverflowStep ==
  (/\ pc = "inc"
   /\ ~IsLowSignal(msg.level)
   /\ Cardinality(RegularKeys(patterns, msg.level)) >= patternsPerLevelLimit
   /\ NoMatch(patterns, msg))
  => LET f == FallbackKey(msg.level)
     IN  /\ DOMAIN patterns' = DOMAIN patterns \cup {f}
         /\ patterns'[f].messages =
              (IF f \in DOMAIN patterns THEN patterns[f].messages ELSE 0) + 1
         /\ patterns'[f].sample = unclassifiedPatternLabel
         /\ \A k \in DOMAIN patterns \ {f} : patterns'[k] = patterns[k]

C3_StableStep ==
  \A level \in HighSignalLevels :
    FallbackKey(level) \in DOMAIN patterns =>
      /\ RegularKeys(patterns', level) = RegularKeys(patterns, level)
      /\ \A k \in RegularKeys(patterns, level) :
           /\ patterns'[k].pattern = patterns[k].pattern
           /\ patterns'[k].sample = patterns[k].sample
           /\ patterns'[k].messages >= patterns[k].messages
      /\ (pc = "inc" /\ msg.level = level /\ ~NoMatch(patterns, msg)) =>
           /\ \E k \in RegularKeys(patterns, level) :
                /\ \/ k.hash = Hash(NewPattern(msg.content))
                   \/ WeakEqual(patterns[k].pattern, NewPattern(msg.content))
                /\ patterns'[k].messages = patterns[k].messages + 1
                /\ \A j \in DOMAIN patterns \ {k} : patterns'[j] = patterns[j]
           /\ patterns'[FallbackKey(level)] = patterns[FallbackKey(level)]

Passing(catalog, line) ==
  {i \in 1..Len(catalog) :
     /\ MatchString(catalog[i].regex, line)
     /\ \/ Len(catalog[i].keywords) = 0
        \/ \E w \in {line[j] : j \in 1..Len(line)} :
             \E k \in 1..Len(catalog[i].keywords) : catalog[i].keywords[k] = w}

\* C4: DetectSensitiveData returns at most one match, in either variant of
\* the package, and the one match is that of the first entry that passes.
C4_SingleMatch ==
  /\ "v1" \in dDone =>
       /\ Len(dMatches) <= 1
       /\ Len(dMatches) = 1 =>
            \E i \in Passing(dCatalog, dLine) :
              /\ \A j \in Passing(dCatalog, dLine) : i <= j
              /\ dMatches[1].name = dCatalog[i].name
  /\ "v2" \in dDone => Len(dMatchesV2) <= 1

\* the first variant alone keeps the single-match contract
C4_FirstVariantSingleMatch == "v1" \in dDone => Len(dMatches) <= 1

C5_WitnessPass ==
  /\ "v1" \in dDone
  /\ dMatches # <<>>
  /\ \E i \in Passing(dCatalog, dLine) : Len(dCatalog[i].keywords) > 0

RECURSIVE SumMessages(_)
SumMessages(counters) ==
  IF counters = {} THEN 0
  ELSE LET c == CHOOSE x \in counters : TRUE
       IN  c.Messages + SumMessages(counters \ {c})

C7_SampleStep ==
  /\ \A k \in DOMAIN patterns :
       k \in DOMAIN patterns' /\ patterns'[k].sample = patterns[k].sample
  /\ \A k \in DOMAIN sensitivePatterns :
       /\ k \in DOMAIN sensitivePatterns'
       /\ sensitivePatterns'[k].sample = sensitivePatterns[k].sample
  /\ \A k \in DOMAIN patterns' \ DOMAIN patterns :
       k.hash \notin {EmptyHash, unclassifiedPatternHash} =>
         patterns'[k].sample = msg.content
  /\ \A k \in DOMAIN sensitivePatterns' \ DOMAIN sensitivePatterns :
       sensitivePatterns'[k].sample = msg.content

Secret(catalog, line) ==
  LET i == CHOOSE i \in Passing(catalog, line) :
             \A j \in Passing(catalog, line) : i <= j
  IN  FindString(catalog[i].regex, line)

C9_Step ==
  /\ \A k \in DOMAIN sensitivePatterns' :
       /\ sensitivePatterns'[k].sensitiveKey = k.pattern
       /\ sensitivePatterns'[k].hash = k.hash
  /\ (pc = "inc" /\ ~disableSensitivePatternDetection) =>
       LET p == NewPattern(msg.content)
           cat == sensitivePatternsDefinations
       IN  IF Passing(cat, msg.content) = {}
           THEN sensitivePatterns' = sensitivePatterns
           ELSE LET secret == Secret(cat, msg.content)
                    new == [pattern |-> secret, hash |-> Hash(p)]
                    same == {k \in DOMAIN sensitivePatterns :
                               /\ k.pattern = secret
                               /\ \/ k.hash = Hash(p)
                                  \/ WeakEqual(sensitivePatterns[k].pattern, p)}
                IN  IF same # {}
                    THEN \E k \in same :
                           sensitivePatterns' =
                             [sensitivePatterns EXCEPT ![k].messages = @ + 1]
                    ELSE /\ DOMAIN sensitivePatterns' =
                              DOMAIN sensitivePatterns \cup {new}
                         /\ new \notin DOMAIN sensitivePatterns
                         /\ sensitivePatterns'[new].messages = 1
                         /\ \A k \in DOMAIN sensitivePatterns :
                              sensitivePatterns'[k] = sensitivePatterns[k]

\* C9: a sensitive counter is keyed by the matched text and the hash of the
\* enclosing pattern.  A message whose secret already has a counter with the
\* same hash or a weakEqual pattern adds 1 to that counter and creates none;
\* any other message with a secret creates a counter of its own, so the same
\* secret under two templates has two counters and two secrets never share
\* a counter.
C9_DoubleKey == [][C9_Step]_vars

\* C9 witness: one secret with two counters, one per template, one of which
\* has counted two messages.
C9_Witness ==
  \E k1, k2 \in DOMAIN sensitivePatterns :
    /\ k1.pattern = k2.pattern
    /\ k1.hash # k2.hash
    /\ ~WeakEqual(sensitivePatterns[k1].pattern, sensitivePatterns[k2].pattern)
    /\ sensitivePatterns[k1].messages = 2

Completed == IF pc = "recv" THEN received ELSE received - 1

C8_Step ==
  /\ \A c \in snapshot' : c.Messages >= 1
  /\ \A c \in sSnapshot' : c.Messages >= 1
  /\ (rpc = "GetCounters" /\ rpc' = "return") =>
       /\ pc \in {"recv", "lock"}
       /\ SumMessages(snapshot') = Completed
  /\ (rpc = "GetSensitiveCounters" /\ rpc' = "return") =>
       pc \in {"recv", "lock"}
  /\ \A c \in snapshot :
       \E d \in snapshot' :
         d.Level = c.Level /\ d.Hash = c.Hash /\ d.Messages >= c.Messages
  /\ \A c \in sSnapshot :
       \E d \in sSnapshot' :
         d.Pattern = c.Pattern /\ d.Hash = c.Hash /\ d.Messages >= c.Messages

\* C8: a getter copies the maps only between two inc calls, so what it
\* returns holds the whole effect of every inc that has returned and nothing
\* of one in progress (its counters add up to the number of completed inc
\* calls and none has 0 messages); and from one snapshot to the next no key
\* disappears and no key's Messages decreases.
C8_SnapshotAtomic == [][C8_Step]_vars

\* C8 witness: inc is in progress under the write lock, after a snapshot of
\* each kind that holds every earlier message.
C8_Witness ==
  /\ lockW
  /\ pc \in {"bump", "sbump"}
  /\ received = MaxLockMsgs
  /\ snapshot # {}
  /\ sSnapshot # {}
  /\ SumMessages(snapshot) = received - 1

\* the embedded catalog fails to load: LoadPatterns is called and fails
CatalogLoadFails(args) == args.loadFails /\ Len(args.patternsCompiled) = 0

\* C11: NewParser returns an error exactly when the catalog fails to load
\* and detection is enabled; when the catalog fails to load and detection is
\* disabled it returns no error and a parser with an empty catalog; when the
\* catalog loads it returns no error.
C11_ConstructorFailure ==
  ctorDone =>
    /\ ctorErr <=> (CatalogLoadFails(ctorArgs) /\ ~ctorArgs.disable)
    /\ (CatalogLoadFails(ctorArgs) /\ ctorArgs.disable) =>
         sensitivePatternsDefinations = <<>>

\* what NewParser does: it never returns an error, and a failed load with
\* detection enabled leaves a parser with an empty catalog
C11_ErrorLogged ==
  ctorDone =>
    /\ ~ctorErr
    /\ (CatalogLoadFails(ctorArgs) \/ ctorArgs.disable) =>
         sensitivePatternsDefinations = <<>>

\* the entries worker A has dealt with: received, and forwarded or dropped
Handled == next - 1 - (IF entry # NoEntry THEN 1 ELSE 0)

\* what worker A is to forward of a sequence of entries: all of them as they
\* are without a decoder; with one, those in an envelope, without it
RECURSIVE Forwardable(_, _)
Forwardable(dec, entries) ==
  IF entries = <<>> THEN <<>>
  ELSE LET e == Head(entries)
           rest == Forwardable(dec, Tail(entries))
       IN  IF ~dec THEN <<e>> \o rest
           ELSE IF Head(e.content) = "enc"
                THEN <<[ts |-> e.ts, level |-> e.level,
                        content |-> Tail(e.content)]>> \o rest
                ELSE rest

C12_State ==
  /\ forwarded = Forwardable(decoder, SubSeq(input, 1, Handled))
  /\ Len(emitted) <= Len(forwarded)
  /\ received <= Len(emitted)

C12_Step ==
  /\ C12_State'
  /\ (pcA = "got" /\ pcA' = "select" /\ decoder
      /\ Head(entry.content) # "enc") =>
       /\ UNCHANGED <<acc, queue, forwarded, emitted, patterns,
                      sensitivePatterns, next, input>>

\* C12: the entries passed to the collector are, in order, the entries
\* received whose decoding succeeded, with the decoded content (all entries,
\* unchanged, without a decoder); the step that drops an entry changes
\* neither the collector nor a counter and leaves worker A at its select
\* with the later entries still to come; no message is counted that was not
\* forwarded.
C12_DecoderDrop == [][C12_Step]_vars

\* C12 witness: with a decoder, an entry was dropped, a later one was
\* forwarded decoded, and its message has been counted.
C12_Witness ==
  /\ decoder
  /\ Handled = 2
  /\ Len(forwarded) = 1
  /\ forwarded[1].ts = 2
  /\ forwarded[1].content # input[2].content
  /\ \E c \in GetCounters : c.Messages = 1

Exited == pcA = "exit" /\ pc = "exit"

C13_Step ==
  /\ (stopCalls > 0 /\ stopCalls' # stopCalls) =>
       UNCHANGED <<aggVars, input, next, pcA, entry, acc, queue,
                   collectorDone, forwarded, emitted, observed, snapshot,
                   sSnapshot>>
  /\ (Exited /\ collectorDone) =>
       /\ Exited'
       /\ UNCHANGED <<patterns, sensitivePatterns, queue, acc>>
  /\ (stopCalls > 0 /\ <<snapshot, sSnapshot>>' # <<snapshot, sSnapshot>>) =>
       /\ snapshot' = GetCounters
       /\ sSnapshot' = GetSensitiveCounters

\* C13: once Stop has been called both workers eventually exit; a second
\* call of Stop changes nothing; after the workers have exited the counters
\* no longer change, and GetCounters and GetSensitiveCounters called after
\* Stop return the counters as they are.
C13_Stop == [][C13_Step]_vars /\ ((stopCalls > 0) ~> Exited)

\* C13 witness: Stop called twice, both workers gone with entries counted,
\* and a snapshot taken afterwards that holds them.
C13_Witness ==
  /\ stopCalls = 2
  /\ Exited
  /\ received > 0
  /\ snapshot = GetCounters
  /\ snapshot # {}

\* C14: when the workers and the collector have terminated, the message
\* the collector was accumulating when Stop was called has been emitted and
\* passed to inc.
C14_ShutdownFlush ==
  (Exited /\ collectorDone /\ atStop.state = "Accumulating") =>
    /\ \E i \in 1..Len(emitted) : emitted[i].ts = atStop.header.ts
    /\ \A i \in 1..Len(queue) : queue[i].ts # atStop.header.ts

\* the inc calls that have run the observer
Observable == received - (IF pc \in {"inc", "crashed"} THEN 1 ELSE 0)

C16_Step ==
  (pc = "inc" /\ pc' = "recv") =>
    /\ onMsgCb = "ok" =>
         observed' =
           Append(observed,
                  [ts |-> msg.ts, level |-> msg.level,
                   hash |-> IF msg.level \in {"Unknown", "Debug", "Info"}
                            THEN <<>>
                            ELSE Hash(NewPattern(msg.content)),
                   content |-> msg.content])
    /\ onMsgCb = "nil" => observed' = observed
    /\ patterns' \in
         {Bump(f.patterns, f.target) :
            f \in Find(patterns, patternsPerLevel, patternsPerLevelLimit, msg)}
    /\ sensitivePatterns' \in
         processSensitivePattern(sensitivePatterns,
                                 disableSensitivePatternDetection,
                                 sensitivePatternsDefinations, msg,
                                 NewPattern(msg.content))

\* C16: an inc with an observer installed calls it once with the message's
\* timestamp, level and content and with the empty hash for Unknown, Debug
\* and Info, the hash of the content's pattern otherwise; without an
\* observer nothing is called; the counters are updated the same way in
\* both cases.
C16_ObserverArguments == [][C16_Step]_vars

\* C16 witness: the observer has been called for a low-signal and for a
\* high-signal message.
C16_Witness ==
  /\ onMsgCb = "ok"
  /\ \E i \in 1..Len(observed) : observed[i].hash = EmptyHash
  /\ \E i \in 1..Len(observed) : observed[i].hash # EmptyHash

\* C17: a panic of the observer inside inc is caught: worker B stays alive
\* and the write lock is free.
C17_PanicCaught ==
  onMsgCb = "panics" => (pc \in {"recv", "inc", "exit"} /\ ~lockW)

\* the patterns have been built, hashed and compared
Applied == pOut # <<>>

\* C18: hash equality implies weak equality: two patterns built by the
\* tokenizer that have the same hash are weakEqual.
C18_HashImpliesWeakEqual ==
  Applied =>
    \A a, b \in pIn :
      pOut.hash[a] = pOut.hash[b] => pOut.weakEqual[a][b]

\* the texts of the stable tokens of a pattern, in order
StableSequence(p) ==
  [i \in 1..Len(SelectSeq(p.tokens, LAMBDA tok : tok.stable)) |->
     SelectSeq(p.tokens, LAMBDA tok : tok.stable)[i].text]

C20_WeakEqualEquivalence ==
  Applied =>
    \A a, b, c \in pIn :
      (Len(pOut.pattern[a].tokens) = Len(pOut.pattern[b].tokens)
         /\ Len(pOut.pattern[b].tokens) = Len(pOut.pattern[c].tokens))
      => /\ pOut.weakEqual[a][a]
         /\ pOut.weakEqual[a][b] => pOut.weakEqual[b][a]
         /\ (pOut.weakEqual[a][b] /\ pOut.weakEqual[b][c])
              => pOut.weakEqual[a][c]

\* three different contents of one length: two are weakEqual, and the third
\* differs from them in the text of a stable token
C20_Witness ==
  /\ Applied
  /\ \E a, b, c \in pIn :
       /\ a # b
       /\ Len(a) = Len(c)
       /\ pOut.weakEqual[a][b]
       /\ pOut.weakEqual[b][a]
       /\ ~pOut.weakEqual[b][c]
       /\ \E n \in 1..Len(c) :
            /\ pOut.pattern[b].tokens[n].stable
            /\ pOut.pattern[c].tokens[n].stable
            /\ pOut.pattern[b].tokens[n].text # pOut.pattern[c].tokens[n].text

\* a step of inc
IncStep == pc = "inc" /\ pc' = "recv"

C21_Step ==
  /\ ~IncStep =>
       /\ patterns' = patterns
       /\ sensitivePatterns' = sensitivePatterns
       /\ patternsPerLevel' = patternsPerLevel
  /\ (rpc = "write" /\ rpc' = "GetCounters") =>
       /\ snapshot' = GetCounters
       /\ SumMessages(snapshot') = Completed
       /\ \A c \in snapshot' : c.Messages >= 1
  /\ (rpc = "write" /\ rpc' = "GetSensitiveCounters") =>
       /\ sSnapshot' = GetSensitiveCounters
       /\ \A c \in sSnapshot' : c.Messages >= 1 /\ c.Sample # <<>>

Extracted == epc = "done"

NonBlank(ls) == {i \in 1..Len(ls) : ~IsBlank(ls[i])}

\* C22: ExtractPatterns returns its patterns sorted by Count in non-increasing
\* order, ties broken by Template in ascending order; an empty input returns
\* an empty list, and blank logs contribute to no pattern's Count.
C22_SortedByCount ==
  Extracted =>
    /\ \A i \in 1..(Len(logPatterns) - 1) :
         /\ logPatterns[i].Count >= logPatterns[i + 1].Count
         /\ logPatterns[i].Count = logPatterns[i + 1].Count
              => ~StringLess(logPatterns[i + 1].Template,
                             logPatterns[i].Template)
    /\ logs = <<>> => logPatterns = <<>>
    /\ NonBlank(logs) = {} => logPatterns = <<>>
    /\ TotalCount(logPatterns) <= Cardinality(NonBlank(logs))
    /\ \A i \in 1..Len(logPatterns) :
         /\ ~IsBlank(logPatterns[i].Example)
         /\ logPatterns[i].Count <=
              Cardinality({n \in NonBlank(logs) :
                             Len(Tokens(logs[n]))
                               = Len(logPatterns[i].Template)})

\* C22 witness: three patterns, the first more frequent than the other two,
\* which are equally frequent and in the order of their templates.
C22_Witness ==
  /\ Extracted
  /\ Len(logPatterns) = 3
  /\ logPatterns[1].Count > logPatterns[2].Count
  /\ logPatterns[2].Count = logPatterns[3].Count
  /\ StringLess(logPatterns[2].Template, logPatterns[3].Template)
  /\ StringLess(logPatterns[2].Template, logPatterns[1].Template)

\* what ExtractPatterns would return for the cluster: its template and count
Candidates ==
  {[Template |-> formatDrainTemplate(clusters[i]), Count |-> clusters[i].Size] :
     i \in {j \in 1..Len(clusters) : formatDrainTemplate(clusters[j]) # <<>>}}

Returned ==
  {[Template |-> logPatterns[i].Template, Count |-> logPatterns[i].Count] :
     i \in 1..Len(logPatterns)}

NonEmptyClusters ==
  Cardinality({j \in 1..Len(clusters) : formatDrainTemplate(clusters[j]) # <<>>})

\* C23: ExtractPatterns(logs, maxPatterns) returns at most maxPatterns
\* patterns when maxPatterns > 0, namely the maxPatterns most frequent ones
\* in sort order, and returns all patterns when maxPatterns is 0.
C23_MaxPatterns ==
  Extracted =>
    /\ maxPatterns > 0 =>
         /\ Len(logPatterns) <= maxPatterns
         /\ Len(logPatterns) = IF NonEmptyClusters < maxPatterns
                               THEN NonEmptyClusters ELSE maxPatterns
         /\ \A c \in Candidates \ Returned :
              \A r \in Returned :
                /\ c.Count <= r.Count
                /\ c.Count = r.Count => ~StringLess(c.Template, r.Template)
    /\ maxPatterns = 0 =>
         /\ Len(logPatterns) = NonEmptyClusters
         /\ Returned = Candidates
    /\ Returned \subseteq Candidates

\* C23 witness: of three patterns the two most frequent ones are returned.
C23_Witness ==
  /\ Extracted
  /\ maxPatterns = 2
  /\ NonEmptyClusters = 3
  /\ Len(logPatterns) = 2
  /\ logPatterns[1].Count > logPatterns[2].Count
  /\ \E c \in Candidates \ Returned :
       /\ c.Count = logPatterns[2].Count
       /\ StringLess(logPatterns[2].Template, c.Template)

\* the messages counted by the entries of a map
RECURSIVE Total(_, _)
Total(map, keys) ==
  IF keys = {} THEN 0
  ELSE LET k == CHOOSE x \in keys : TRUE
       IN  map[k].messages + Total(map, keys \ {k})

C24_Step ==
  /\ \A level \in Levels :
       IsLowSignal(level) =>
         \A k \in DOMAIN patterns' : k.level = level => k.hash = EmptyHash
  /\ (pc = "inc" /\ IsLowSignal(msg.level)) =>
       LET key == PatternKey(msg.level, EmptyHash)
       IN  /\ DOMAIN patterns' = DOMAIN patterns \cup {key}
           /\ patterns'[key].messages =
                (IF key \in DOMAIN patterns THEN patterns[key].messages
                 ELSE 0) + 1
           /\ \A k \in DOMAIN patterns \ {key} : patterns'[k] = patterns[k]
           /\ patternsPerLevel' = patternsPerLevel
           /\ Total(sensitivePatterns', DOMAIN sensitivePatterns') =
                Total(sensitivePatterns, DOMAIN sensitivePatterns)
                  + (IF /\ ~disableSensitivePatternDetection
                        /\ Passing(sensitivePatternsDefinations,
                                   msg.content) # {}
                     THEN 1 ELSE 0)

\* C24: for a message of level Unknown, Debug or Info, inc adds exactly 1 to
\* the reserved entry (level, ""), creating it on first use, and creates no
\* other pattern key, so a low-signal level never has another entry; the
\* content still goes through sensitive-pattern processing.
C24_LowSignalIncrement == [][C24_Step]_vars

\* C24 witness: two Info messages with different contents, one holding a
\* secret, are counted by the one entry (Info, "") and by a sensitive counter.
C24_Witness ==
  /\ pc = "recv"
  /\ PatternKey("Info", EmptyHash) \in DOMAIN patterns
  /\ patterns[PatternKey("Info", EmptyHash)].messages = 2
  /\ \A k \in DOMAIN patterns : k.level = "Info"
  /\ \E k \in DOMAIN sensitivePatterns :
       /\ k.hash # EmptyHash
       /\ sensitivePatterns[k].messages = 1

C25_Step ==
  (pc = "inc" /\ ~IsLowSignal(msg.level)) =>
    LET p == NewPattern(msg.content)
        key == PatternKey(msg.level, Hash(p))
        weak == {k \in DOMAIN patterns :
                   k.level = msg.level /\ WeakEqual(patterns[k].pattern, p)}
    IN  /\ \A k \in DOMAIN patterns :
             /\ k \in DOMAIN patterns'
             /\ patterns'[k].sample = patterns[k].sample
             /\ patterns'[k].pattern = patterns[k].pattern
             /\ k.level # msg.level => patterns'[k] = patterns[k]
        /\ IF key \in DOMAIN patterns
           THEN patterns' = [patterns EXCEPT ![key].messages = @ + 1]
           ELSE IF weak # {}
           THEN \E k \in weak :
                  patterns' = [patterns EXCEPT ![k].messages = @ + 1]
           ELSE IF patternsPerLevel[msg.level] < patternsPerLevelLimit
           THEN /\ DOMAIN patterns' = DOMAIN patterns \cup {key}
                /\ patterns'[key] =
                     [pattern |-> p, sample |-> msg.content, messages |-> 1]
                /\ \A k \in DOMAIN patterns : patterns'[k] = patterns[k]
           ELSE key \notin DOMAIN patterns'

RECURSIVE SplitLines(_, _)
SplitLines(content, line) ==
  IF content = <<>> THEN <<line>>
  ELSE IF Head(content) = "\n"
       THEN <<line>> \o SplitLines(Tail(content), <<>>)
       ELSE SplitLines(Tail(content), Append(line, Head(content)))

\* the lines of a sequence of messages, in order
RECURSIVE LinesOf(_)
LinesOf(ms) ==
  IF ms = <<>> THEN <<>>
  ELSE SplitLines(Head(ms).content, <<>>) \o LinesOf(Tail(ms))

\* s is t with some elements left out
RECURSIVE IsSubseq(_, _)
IsSubseq(s, t) ==
  IF s = <<>> THEN TRUE
  ELSE IF t = <<>> THEN FALSE
  ELSE IF Head(s) = Head(t) THEN IsSubseq(Tail(s), Tail(t))
       ELSE IsSubseq(s, Tail(t))

\* the lines the collector holds for the message in flight
HeldLines == IF acc.state = "Idle" THEN <<>> ELSE <<acc.header.content>> \o acc.parts

\* the contents of the entries forwarded to the collector
ForwardedLines == [i \in 1..Len(forwarded) |-> forwarded[i].content]

\* the header in flight followed by its parts, each after a newline
RECURSIVE Joined(_, _)
Joined(header, parts) ==
  IF parts = <<>> THEN header
  ELSE Joined(header \o <<"\n">> \o Head(parts), Tail(parts))

\* worker A hands a header to a collector that is accumulating
C26_Step ==
  (/\ pcA = "got" /\ pcA' = "select"
   /\ acc.state = "Accumulating"
   /\ IsHeader(entry)) =>
    /\ emitted' = Append(emitted,
                         [ts |-> acc.header.ts, level |-> acc.header.level,
                          content |-> Joined(acc.header.content, acc.parts)])
    /\ acc'.state = "Accumulating"
    /\ acc'.header = entry
    /\ acc'.parts = <<>>

\* the lines emitted and held are, in order and each once, the lines
\* forwarded less the lines dropped; messages are emitted in input order
C26_Lines ==
  /\ IsSubseq(LinesOf(emitted) \o HeldLines, ForwardedLines)
  /\ Len(LinesOf(emitted)) + Len(HeldLines) + acc.dropped = Len(forwarded)
  /\ \A i, j \in 1..Len(emitted) : i < j => emitted[i].ts < emitted[j].ts

\* C26: a header that arrives while the collector is accumulating makes it
\* emit one message, the previous header followed by its continuation lines
\* in arrival order joined by newlines, with the previous header's level and
\* timestamp, and then accumulate the new header; no input line is in two
\* emitted messages and the messages are emitted in input order.
C26_HeaderBoundary == [][C26_Step]_vars /\ []C26_Lines

\* a header with two continuation lines was emitted when the next header came
C26_Witness ==
  /\ Len(emitted) = 1
  /\ emitted[1] = [ts |-> 1, level |-> "Error",
                   content |-> <<"err", "v1", "\n", "at", "db", "\n",
                                 "at", "v1">>]
  /\ acc.state = "Accumulating"
  /\ acc.header.ts = 4
  /\ acc.parts = <<>>
  /\ acc.deadline = multilineCollectorTimeout

\* worker A hands the collector a continuation line beyond the limit
BeyondLimit ==
  /\ pcA = "got" /\ pcA' = "select"
  /\ acc.state = "Accumulating"
  /\ ~IsHeader(entry)
  /\ Len(acc.parts) >= multilineCollectorLimit

\* a line beyond the limit is dropped and counted, and only such a line
C28_Step ==
  /\ BeyondLimit =>
       /\ acc' = [acc EXCEPT !.dropped = acc.dropped + 1]
       /\ emitted' = emitted
       /\ forwarded' = Append(forwarded, entry)
  /\ ~BeyondLimit => acc'.dropped = acc.dropped

\* C28: the collector never holds more than multilineCollectorLimit
\* continuation parts for the header in flight; a continuation line that
\* arrives beyond the limit is left out of the emitted message, the collector
\* goes on accumulating, and the number of lines dropped is counted.
C28_MultilineLimit ==
  /\ [](Len(acc.parts) <= multilineCollectorLimit)
  /\ [](\A i \in 1..Len(emitted) :
          Len(SplitLines(emitted[i].content, <<>>))
            <= 1 + multilineCollectorLimit)
  /\ [][C28_Step]_vars

\* a header came with three continuation lines: the message emitted on
\* timeout has the first two, the third was dropped and counted
C28_Witness ==
  /\ Len(forwarded) = 4
  /\ acc.state = "Idle"
  /\ acc.dropped = 1
  /\ Len(emitted) = 1
  /\ emitted[1].content = <<"err", "v1", "\n", "at", "db", "\n", "at", "db">>

\* an append sets the deadline to now + T; the collector goes back to Idle
\* on its own only when the deadline has passed, emitting the message once
C27_Step ==
  /\ (/\ pcA = "got" /\ pcA' = "select"
      /\ acc.state = "Accumulating"
      /\ Len(acc'.parts) > Len(acc.parts)) =>
       acc'.deadline = multilineCollectorTimeout
  /\ (acc.state = "Accumulating" /\ acc'.state = "Idle" /\ ~collectorDone') =>
       /\ acc.deadline = 0
       /\ emitted' = Append(emitted,
                            [ts |-> acc.header.ts, level |-> acc.header.level,
                             content |-> Joined(acc.header.content, acc.parts)])

\* the header with timestamp t was emitted and inc has counted it
HeaderCounted(t) ==
  \E i \in 1..Len(emitted) : emitted[i].ts = t /\ i <= Observable

\* C27: every append of a continuation resets the deadline to now + T; when
\* the deadline passes the collector emits the accumulated message exactly
\* once and returns to Idle, so every header the collector accepted is
\* eventually emitted and counted, even if no further input arrives.
C27_MultilineTimeout ==
  /\ [][C27_Step]_vars
  /\ \A t \in 1..MaxFairEntries :
       (acc.state = "Accumulating" /\ acc.header.ts = t) ~> HeaderCounted(t)

\* inc has called the observer and has not yet returned
CallbackStarted ==
  /\ onMsgCb # "nil"
  /\ \/ pc \in {"observer", "sfind", "sbump", "unlock"}
     \/ pc = "bump" /\ ~IsLowSignal(msg.level)

\* from the call of the observer on, no getter reads or returns; an observer
\* that calls GetCounters stays in that call, with the lock held
C29_Step ==
  /\ CallbackStarted =>
       /\ snapshot' = snapshot
       /\ sSnapshot' = sSnapshot
       /\ rpc' = "idle"
  /\ (onMsgCb = "reenters" /\ pc = "observer") =>
       /\ pc' = "observer"
       /\ lockW'

\* C29: the observer runs while inc holds the write lock: between the call
\* of the observer and the end of that inc no GetCounters and no
\* GetSensitiveCounters call completes, and an observer that itself calls
\* GetCounters never returns.
C29_CallbackUnderLock ==
  /\ [](CallbackStarted => (lockW /\ lockR = 0 /\ rpc = "idle"))
  /\ [][C29_Step]_vars

\* an observer that calls GetCounters was called for an Error message
C29_Witness ==
  /\ onMsgCb = "reenters"
  /\ pc = "observer"
  /\ msg.level = "Error"
  /\ lockW
  /\ DOMAIN patterns # {}

\* messages of an entry, 0 for a key the map does not hold
MessagesOf(map, k) == IF k \in DOMAIN map THEN map[k].messages ELSE 0

\* the keys whose entry an inc call created or changed
Changed ==
  {k \in DOMAIN patterns' :
     k \notin DOMAIN patterns \/ patterns'[k] # patterns[k]}

\* an inc call: one entry, at the level of the message, has one message
\* more; no entry is removed and no other entry is created or changed
C30_Step ==
  IncStep =>
    /\ DOMAIN patterns \subseteq DOMAIN patterns'
    /\ Cardinality(Changed) = 1
    /\ \A k \in Changed :
         /\ k.level = msg.level
         /\ patterns'[k].messages = MessagesOf(patterns, k) + 1

\* C30: every inc call changes exactly one pattern entry, at the level of
\* the message, by exactly +1 and leaves every other entry unchanged; so in
\* every state the messages of all pattern entries, reserved and overflow
\* entries included, add up to the number of inc calls completed.
C30_OneEntryPerCall ==
  /\ [][C30_Step]_vars
  /\ [](Total(patterns, DOMAIN patterns) = Completed)

\* three calls done: a reserved entry, a pattern entry and the overflow entry
\* of a level at its cap have one message each
C30_Witness ==
  /\ pc = "recv"
  /\ received = 3
  /\ Cardinality(DOMAIN patterns) = 3
  /\ \E k \in DOMAIN patterns : k.hash = EmptyHash /\ IsLowSignal(k.level)
  /\ FallbackKey("Error") \in DOMAIN patterns
  /\ \A k \in DOMAIN patterns : patterns[k].messages = 1

\* the entries the scan of inc may stop at for the message being counted
ScanCandidates == WeakCandidates(patterns, msg, NewPattern(msg.content))

\* C31: no two distinct regular pattern entries of one level hold patterns
\* that are weakEqual, so the scan of inc over the map meets at most one
\* weakEqual entry and the entry a message is counted in does not depend on
\* the order in which the map is iterated.
C31_ScanDeterministic ==
  /\ \A k1, k2 \in DOMAIN patterns :
       (k1 # k2 /\ k1.level = k2.level) =>
         ~WeakEqual(patterns[k1].pattern, patterns[k2].pattern)
  /\ (pc = "inc" /\ ~IsLowSignal(msg.level)) =>
       /\ Cardinality(ScanCandidates) <= 1
       /\ Cardinality(Find(patterns, patternsPerLevel, patternsPerLevelLimit,
                           msg)) = 1

\* inc is about to count an Error message while the level holds two regular
\* entries, one of them weakEqual to the message
C31_Witness ==
  /\ pc = "inc"
  /\ msg = [level |-> "Error", content |-> <<"err", "v2">>]
  /\ Cardinality({k \in DOMAIN patterns :
                    k.level = "Error" /\ ~patterns[k].pattern.nil}) = 2
  /\ Cardinality(ScanCandidates) = 1
  /\ \E k \in ScanCandidates : patterns[k].sample = <<"err", "v1">>

C33_ClosedChannelQuiet ==
  /\ \A i \in 1..Len(forwarded) : forwarded[i] # ZeroEntry
  /\ Len(forwarded) <= Len(input)
  /\ Total(patterns, DOMAIN patterns) <= Len(input)

\* C34: the snapshot main takes after it sent the last line accounts for
\* every line: no line is with worker A, in the collector or between the
\* workers, and the Messages of the snapshot add up to the number of
\* messages formed from the lines.
C34_MainSnapshotComplete ==
  [][(rpc = "idle" /\ rpc' = "GetCounters") =>
       /\ pcA = "select"
       /\ acc.state = "Idle"
       /\ queue = <<>>
       /\ pc = "recv"
       /\ SumMessages(snapshot') = Len(emitted)]_vars


====
